---- MODULE Spec2Model ----
(***************************************************************************)
(* LoopKitProvider (src/src/context.tsx): the initialization lifecycle of  *)
(* the wrapped analytics SDK and the delegating operations of the context  *)
(* bundle, as a state machine over React's render / effect / continuation  *)
(* steps.                                                                  *)
(* The hooks of src/src/hooks.ts run in a consumer component under the     *)
(* provider and call into the context bundle.                              *)
(***************************************************************************)
EXTENDS Integers, Sequences, FiniteSets, TLC

VARIABLES
  props,          \* the props most recently supplied by the parent
  rendered,       \* what the last committed render closed over
  isInitialized,  \* useState(false)
  isLoading,      \* useState(true)
  error,          \* useState<Error | null>(null)
  currentConfig,  \* useState<LoopKitConfig | null>(null)
  dirty,          \* a state update has scheduled a re-render
  inflight,       \* initializeLoopKit runs suspended at `await LoopKit.init`
  initDone,       \* id of an initialize run |-> its callbacks and how it ended
  ops,            \* delegated calls made by the consumer, in call order
  sdkLog,         \* calls received by the external SDK, in order
  events,         \* callback invocations and results seen by the consumer
  hook,           \* the hook instance of a consumer component under the provider
  window,         \* the navigation context (window.location, document)
  hookLog         \* what the hooks did: calls made into the context bundle

vars == <<props, rendered, isInitialized, isLoading, error, currentConfig,
          dirty, inflight, initDone, ops, sdkLog, events, hook, window, hookLog>>

providerVars == <<props, rendered, isInitialized, isLoading, error,
                  currentConfig, dirty, inflight, initDone, ops, sdkLog, events>>

hookVars == <<hook, window, hookLog>>

-----------------------------------------------------------------------------
(* Bounds *)

MaxInits == 2
MaxOps == 1
MaxHookCalls == 2

-----------------------------------------------------------------------------
(* Values *)

None == "none"
OnErrorFns == {None, "onError1", "onError2"}
OnInitializedFns == {None, "onInitialized1", "onInitialized2"}
ApiKeys == {"key1", "key2"}

EmptyConfig == <<>>
ConfigVals == {EmptyConfig, [debug |-> TRUE]}
OptionVals == {[debug |-> FALSE]}
QueueSizes == {2}
EventNames == {"x"}
Properties == {"{a: 1}"}
TrackOptionVals == {"undefined", "{timestamp}"}
Batches == {"[x, y]"}
UserIds == {"u1"}
GroupIds == {"group123"}
GroupTypes == {"organization"}

Omitted == [id |-> 0, val |-> EmptyConfig]
NullConfig == [id |-> 0, val |-> EmptyConfig]

Undefined == [type |-> "undefined", text |-> ""]
Causes == {[type |-> "Error", text |-> "boom"], [type |-> "string", text |-> "oops"]}
CallbackThrown == [type |-> "Error", text |-> "callback threw"]

NoError == [name |-> "null", code |-> "", message |-> <<>>, originalError |-> Undefined]

\* err instanceof Error ? err : new Error(String(err))
ToError(err) ==
  IF err.type = "Error" THEN err ELSE [type |-> "Error", text |-> err.text]

LoopKitInitializationError(message, originalError) ==
  [name |-> "LoopKitInitializationError", code |-> "INITIALIZATION_ERROR",
   message |-> message, originalError |-> originalError]

LoopKitTrackingError(message, originalError) ==
  [name |-> "LoopKitTrackingError", code |-> "TRACKING_ERROR",
   message |-> message, originalError |-> originalError]

NotInitializedMessage == <<"LoopKit is not initialized">>

\* { ...prev, ...options }
Spread(prev, options) ==
  [k \in DOMAIN prev \cup DOMAIN options |->
     IF k \in DOMAIN options THEN options[k] ELSE prev[k]]

-----------------------------------------------------------------------------
(* Object identity of config objects: an id not held by any live reference *)

LiveIds ==
  {props.config.id, rendered.config.id, currentConfig.id}
    \cup {r.config.id : r \in inflight}

FreshId ==
  CHOOSE i \in 1..(MaxInits + 4) :
    /\ i \notin LiveIds
    /\ \A j \in 1..(i - 1) : j \in LiveIds

NumInits == Cardinality(DOMAIN initDone)

\* An initializeLoopKit run and the callbacks its closure holds.
Started(onError, onInitialized) ==
  [status |-> "pending", onError |-> onError, onInitialized |-> onInitialized,
   cause |-> Undefined]

-----------------------------------------------------------------------------
(* Callback invocation and caller-visible results, recorded in order *)

\* fn(err) is called; ready: the state updates to ready were issued before it
Invoke(kind, fn, src, err, ready) ==
  [ev |-> kind, fn |-> fn, src |-> src, err |-> err, value |-> 0, ready |-> ready]

\* the caller of operation src gets value back, or err raised when it is set
Result(src, err, value) ==
  [ev |-> "result", fn |-> "caller", src |-> src, err |-> err, value |-> value,
   ready |-> FALSE]

\* if (onError) { onError(error) }
NotifyError(fn, src, err) ==
  IF fn = None THEN <<>> ELSE <<Invoke("onError", fn, src, err, FALSE)>>

-----------------------------------------------------------------------------
(* LoopKitProvider: render, and the init effect with deps                  *)
(* [apiKey, config, onError, onInitialized]                                *)

\* config = {} : a new object on every render that omits the prop
ConfigOf(p) ==
  IF p.config = Omitted THEN [id |-> FreshId, val |-> EmptyConfig] ELSE p.config

DepsChanged(p, cfg) ==
  \/ rendered.apiKey # p.apiKey
  \/ rendered.config.id # cfg.id
  \/ rendered.onError # p.onError
  \/ rendered.onInitialized # p.onInitialized

\* Render whose init effect also issues setIsInitialized(false) when it starts.
RenderResetsReady(p) ==
  LET cfg == ConfigOf(p)
      id == NumInits + 1
  IN /\ props' = p
     /\ rendered' = [apiKey |-> p.apiKey, config |-> cfg, onError |-> p.onError,
                     onInitialized |-> p.onInitialized,
                     isInitialized |-> isInitialized]
     /\ IF DepsChanged(p, cfg)
        THEN /\ NumInits < MaxInits
             /\ isLoading' = TRUE
             /\ isInitialized' = FALSE
             /\ error' = NoError
             /\ dirty' = (isLoading # TRUE \/ error # NoError)
             /\ inflight' = inflight \cup
                  {[id |-> id, apiKey |-> p.apiKey, config |-> cfg,
                    onError |-> p.onError, onInitialized |-> p.onInitialized]}
             /\ initDone' = (id :> Started(p.onError, p.onInitialized)) @@ initDone
             /\ sdkLog' = Append(sdkLog,
                  [fn |-> "init", args |-> <<p.apiKey, cfg.val>>, id |-> id])
        ELSE /\ dirty' = FALSE
             /\ UNCHANGED <<isLoading, error, inflight, initDone, sdkLog, isInitialized>>
     /\ UNCHANGED <<currentConfig, ops, events>>

\* The function component body followed by the commit and its effects.
\* The init effect runs initializeLoopKit up to `await LoopKit.init(...)`.
Render(p) ==
  LET cfg == ConfigOf(p)
      id == NumInits + 1
  IN /\ props' = p
     /\ rendered' = [apiKey |-> p.apiKey, config |-> cfg, onError |-> p.onError,
                     onInitialized |-> p.onInitialized,
                     isInitialized |-> isInitialized]
     /\ IF DepsChanged(p, cfg)
        THEN /\ NumInits < MaxInits
             /\ isLoading' = TRUE
             /\ error' = NoError
             /\ dirty' = (isLoading # TRUE \/ error # NoError)
             /\ inflight' = inflight \cup
                  {[id |-> id, apiKey |-> p.apiKey, config |-> cfg,
                    onError |-> p.onError, onInitialized |-> p.onInitialized]}
             /\ initDone' = (id :> Started(p.onError, p.onInitialized)) @@ initDone
             /\ sdkLog' = Append(sdkLog,
                  [fn |-> "init", args |-> <<p.apiKey, cfg.val>>, id |-> id])
        ELSE /\ dirty' = FALSE
             /\ UNCHANGED <<isLoading, error, inflight, initDone, sdkLog>>
     /\ UNCHANGED <<isInitialized, currentConfig, ops, events>>

\* The parent renders the provider again, with the props p.
ParentRender(p) ==
  Render(p)

\* A re-render scheduled by the provider's own state updates.
StateRender ==
  /\ dirty
  /\ Render(props)

\* The config prop a parent can pass: none, the object it passed before, or
\* a newly constructed object.
ConfigProps ==
  {Omitted, props.config} \cup {[id |-> FreshId, val |-> v] : v \in ConfigVals}

\* The props of a re-render: those of the previous render with at most one
\* of them replaced.
NextProps ==
  {[props EXCEPT !.apiKey = k] : k \in ApiKeys}
    \cup {[props EXCEPT !.config = c] : c \in ConfigProps}
    \cup {[props EXCEPT !.onError = f] : f \in OnErrorFns}
    \cup {[props EXCEPT !.onInitialized = f] : f \in OnInitializedFns}

-----------------------------------------------------------------------------
(* initializeLoopKit after `await LoopKit.init(apiKey, config)`            *)

\* InitResolved with onInitialized called after the try block: its exception
\* escapes initializeLoopKit and the provider stays ready.
InitResolvedCallbackOutside(r, throws) ==
  LET src == <<"init", r.id>>
      called == IF r.onInitialized = None THEN <<>>
                ELSE <<Invoke("onInitialized", r.onInitialized, src, NoError, TRUE)>>
      thrown == r.onInitialized # None /\ throws
  IN /\ r \in inflight
     /\ inflight' = inflight \ {r}
     /\ initDone' = [initDone EXCEPT
                       ![r.id].status = IF thrown THEN "resolved-threw" ELSE "resolved"]
     /\ currentConfig' = r.config
     /\ isInitialized' = TRUE
     /\ isLoading' = FALSE
     /\ error' = error
     /\ events' = events \o called
     /\ dirty' = (dirty \/ <<isInitialized', isLoading', error', currentConfig'>>
                            # <<isInitialized, isLoading, error, currentConfig>>)
     /\ UNCHANGED <<props, rendered, ops, sdkLog>>

\* External init resolved: lines 56-63; a throwing onInitialized lands in
\* the catch block, lines 64-78.
InitResolved(r, throws) ==
  LET src == <<"init", r.id>>
      called == IF r.onInitialized = None THEN <<>>
                ELSE <<Invoke("onInitialized", r.onInitialized, src, NoError, TRUE)>>
      thrown == r.onInitialized # None /\ throws
      err == LoopKitInitializationError(<<"Failed to initialize LoopKit">>,
                                        ToError(CallbackThrown))
  IN /\ r \in inflight
     /\ inflight' = inflight \ {r}
     /\ initDone' = [initDone EXCEPT
                       ![r.id].status = IF thrown THEN "resolved-threw" ELSE "resolved"]
     /\ currentConfig' = r.config
     /\ IF thrown
        THEN /\ error' = err
             /\ isLoading' = FALSE
             /\ isInitialized' = FALSE
             /\ events' = events \o called \o NotifyError(r.onError, src, err)
        ELSE /\ isInitialized' = TRUE
             /\ isLoading' = FALSE
             /\ error' = error
             /\ events' = events \o called
     /\ dirty' = (dirty \/ <<isInitialized', isLoading', error', currentConfig'>>
                            # <<isInitialized, isLoading, error, currentConfig>>)
     /\ UNCHANGED <<props, rendered, ops, sdkLog>>

\* InitRejected with the success callback called from the catch block too.
InitRejectedCallsOnInitialized(r, cause) ==
  LET src == <<"init", r.id>>
      err == LoopKitInitializationError(<<"Failed to initialize LoopKit">>,
                                        ToError(cause))
      called == IF r.onInitialized = None THEN <<>>
                ELSE <<Invoke("onInitialized", r.onInitialized, src, NoError, FALSE)>>
  IN /\ r \in inflight
     /\ inflight' = inflight \ {r}
     /\ initDone' = [initDone EXCEPT ![r.id].status = "rejected",
                                     ![r.id].cause = cause]
     /\ error' = err
     /\ isLoading' = FALSE
     /\ isInitialized' = FALSE
     /\ events' = events \o NotifyError(r.onError, src, err) \o called
     /\ dirty' = (dirty \/ <<isInitialized', isLoading', error'>>
                            # <<isInitialized, isLoading, error>>)
     /\ UNCHANGED <<props, rendered, currentConfig, ops, sdkLog>>

\* InitRejected storing the cause as thrown, without `new Error(String(err))`.
InitRejectedUnconverted(r, cause) ==
  LET src == <<"init", r.id>>
      err == LoopKitInitializationError(<<"Failed to initialize LoopKit">>, cause)
  IN /\ r \in inflight
     /\ inflight' = inflight \ {r}
     /\ initDone' = [initDone EXCEPT ![r.id].status = "rejected",
                                     ![r.id].cause = cause]
     /\ error' = err
     /\ isLoading' = FALSE
     /\ isInitialized' = FALSE
     /\ events' = events \o NotifyError(r.onError, src, err)
     /\ dirty' = (dirty \/ <<isInitialized', isLoading', error'>>
                            # <<isInitialized, isLoading, error>>)
     /\ UNCHANGED <<props, rendered, currentConfig, ops, sdkLog>>

\* External init rejected with `cause`: the catch block, lines 64-78.
InitRejected(r, cause) ==
  LET src == <<"init", r.id>>
      err == LoopKitInitializationError(<<"Failed to initialize LoopKit">>,
                                        ToError(cause))
  IN /\ r \in inflight
     /\ inflight' = inflight \ {r}
     /\ initDone' = [initDone EXCEPT ![r.id].status = "rejected",
                                     ![r.id].cause = cause]
     /\ error' = err
     /\ isLoading' = FALSE
     /\ isInitialized' = FALSE
     /\ events' = events \o NotifyError(r.onError, src, err)
     /\ dirty' = (dirty \/ <<isInitialized', isLoading', error'>>
                            # <<isInitialized, isLoading, error>>)
     /\ UNCHANGED <<props, rendered, currentConfig, ops, sdkLog>>


-----------------------------------------------------------------------------
(* The delegating operations of the context value                          *)

\* A call of an operation: `ready` is the isInitialized its closure holds,
\* `outcome` and `cause` what became of the external call.
Call(op, args, outcome) ==
  [op |-> op, args |-> args, onError |-> rendered.onError,
   ready |-> rendered.isInitialized, outcome |-> outcome, cause |-> Undefined,
   returned |-> 0]

Pending(i) == i \in 1..Len(ops) /\ ops[i].outcome = "pending"

MaxCalls == 2

\* DelegateWithin handing its external call over ahead of the earlier ones.
DelegateWithinReordered(bound, op, args, sdkArgs) ==
  LET id == Len(ops) + 1
  IN /\ Len(ops) < bound
     /\ IF ~rendered.isInitialized
        THEN /\ ops' = Append(ops, Call(op, args, "not-initialized"))
             /\ events' = Append(events,
                  Result(<<"op", id>>,
                         LoopKitTrackingError(NotInitializedMessage, Undefined), 0))
             /\ sdkLog' = sdkLog
        ELSE /\ ops' = Append(ops, Call(op, args, "pending"))
             /\ sdkLog' = <<[fn |-> op, args |-> sdkArgs, id |-> id]>> \o sdkLog
             /\ events' = events
     /\ UNCHANGED <<props, rendered, isInitialized, isLoading, error,
                    currentConfig, dirty, inflight, initDone>>

\* DelegateWithin reporting the not-initialized rejection to onError too.
DelegateWithinNotifiesGuard(bound, op, args, sdkArgs) ==
  LET id == Len(ops) + 1
      err == LoopKitTrackingError(NotInitializedMessage, Undefined)
  IN /\ Len(ops) < bound
     /\ IF ~rendered.isInitialized
        THEN /\ ops' = Append(ops, Call(op, args, "not-initialized"))
             /\ events' = events \o NotifyError(rendered.onError, <<"op", id>>, err)
                                 \o <<Result(<<"op", id>>, err, 0)>>
             /\ sdkLog' = sdkLog
        ELSE /\ ops' = Append(ops, Call(op, args, "pending"))
             /\ sdkLog' = Append(sdkLog, [fn |-> op, args |-> sdkArgs, id |-> id])
             /\ events' = events
     /\ UNCHANGED <<props, rendered, isInitialized, isLoading, error,
                    currentConfig, dirty, inflight, initDone>>

\* Lines 147-152 and their copies in trackBatch, identify, group and flush:
\* the isInitialized guard, then the external call, suspended at `await`.
\* At most `bound` operations are called in a behaviour.
DelegateWithin(bound, op, args, sdkArgs) ==
  LET id == Len(ops) + 1
  IN /\ Len(ops) < bound
     /\ IF ~rendered.isInitialized
        THEN /\ ops' = Append(ops, Call(op, args, "not-initialized"))
             /\ events' = Append(events,
                  Result(<<"op", id>>,
                         LoopKitTrackingError(NotInitializedMessage, Undefined), 0))
             /\ sdkLog' = sdkLog
        ELSE /\ ops' = Append(ops, Call(op, args, "pending"))
             /\ sdkLog' = Append(sdkLog, [fn |-> op, args |-> sdkArgs, id |-> id])
             /\ events' = events
     /\ UNCHANGED <<props, rendered, isInitialized, isLoading, error,
                    currentConfig, dirty, inflight, initDone>>

\* Delegate without the isInitialized guard.
DelegateUnguarded(op, args, sdkArgs) ==
  LET id == Len(ops) + 1
  IN /\ Len(ops) < MaxOps
     /\ ops' = Append(ops, Call(op, args, "pending"))
     /\ sdkLog' = Append(sdkLog, [fn |-> op, args |-> sdkArgs, id |-> id])
     /\ events' = events
     /\ UNCHANGED <<props, rendered, isInitialized, isLoading, error,
                    currentConfig, dirty, inflight, initDone>>

Delegate(op, args, sdkArgs) ==
  DelegateWithin(MaxOps, op, args, sdkArgs)

\* track calling LoopKit.track(eventName, properties) without the options.
trackWithoutOptions(eventName, properties, options) ==
  Delegate("track", <<eventName, properties, options>>,
           <<eventName, properties, "undefined">>)

track(eventName, properties, options) ==
  Delegate("track", <<eventName, properties, options>>,
           <<eventName, properties, options>>)

trackBatch(batch) ==
  Delegate("trackBatch", <<batch>>, <<batch>>)

identify(userId, properties) ==
  Delegate("identify", <<userId, properties>>, <<userId, properties>>)

\* LoopKit.group(groupId, properties): _groupType is not passed on
group(groupId, properties, groupType) ==
  Delegate("group", <<groupId, properties, groupType>>, <<groupId, properties>>)

flush ==
  Delegate("flush", <<>>, <<>>)

\* The message of the LoopKitTrackingError built in each catch block.
FailureMessage(op, args) ==
  CASE op = "track" -> <<"Failed to track event: ", args[1]>>
    [] op = "trackBatch" -> <<"Failed to track batch events">>
    [] op = "identify" -> <<"Failed to identify user: ", args[1]>>
    [] op = "group" -> <<"Failed to set group: ", args[1]>>
    [] op = "flush" -> <<"Failed to flush events">>
    [] op = "configure" -> <<"Failed to configure LoopKit">>

\* The awaited external call fulfilled: the operation returns.
DelegateResolved(i) ==
  /\ Pending(i)
  /\ ops' = [ops EXCEPT ![i].outcome = "ok"]
  /\ events' = Append(events, Result(<<"op", i>>, NoError, 0))
  /\ UNCHANGED <<props, rendered, isInitialized, isLoading, error,
                 currentConfig, dirty, inflight, initDone, sdkLog>>

\* DelegateRejected keeping the cause as thrown, without `new Error(String(err))`.
DelegateRejectedUnconverted(i, cause) ==
  LET err == LoopKitTrackingError(FailureMessage(ops[i].op, ops[i].args), cause)
  IN /\ Pending(i)
     /\ ops' = [ops EXCEPT ![i].outcome = "failed", ![i].cause = cause]
     /\ events' = events \o NotifyError(ops[i].onError, <<"op", i>>, err)
                         \o <<Result(<<"op", i>>, err, 0)>>
     /\ UNCHANGED <<props, rendered, isInitialized, isLoading, error,
                    currentConfig, dirty, inflight, initDone, sdkLog>>

\* The awaited external call threw or rejected with `cause`: the catch block
\* (lines 153-163 for track).
DelegateRejected(i, cause) ==
  LET err == LoopKitTrackingError(FailureMessage(ops[i].op, ops[i].args),
                                  ToError(cause))
  IN /\ Pending(i)
     /\ ops' = [ops EXCEPT ![i].outcome = "failed", ![i].cause = cause]
     /\ events' = events \o NotifyError(ops[i].onError, <<"op", i>>, err)
                         \o <<Result(<<"op", i>>, err, 0)>>
     /\ UNCHANGED <<props, rendered, isInitialized, isLoading, error,
                    currentConfig, dirty, inflight, initDone, sdkLog>>

\* getQueueSize without the isInitialized guard.
getQueueSizeUnguarded(outcome) ==
  LET id == Len(ops) + 1
      src == <<"op", id>>
  IN /\ Len(ops) < MaxOps
     /\ sdkLog' = Append(sdkLog, [fn |-> "getQueueSize", args |-> <<>>, id |-> id])
     /\ IF outcome.throws
        THEN /\ ops' = Append(ops,
                  [Call("getQueueSize", <<>>, "failed") EXCEPT !.cause = outcome.cause])
             /\ events' = events
                  \o NotifyError(rendered.onError, src, ToError(outcome.cause))
                  \o <<Result(src, NoError, 0)>>
        ELSE /\ ops' = Append(ops,
                  [Call("getQueueSize", <<>>, "ok") EXCEPT !.returned = outcome.size])
             /\ events' = Append(events, Result(src, NoError, outcome.size))
     /\ UNCHANGED <<props, rendered, isInitialized, isLoading, error,
                    currentConfig, dirty, inflight, initDone>>

\* getQueueSize letting the exception of LoopKit.getQueueSize() escape.
getQueueSizeRethrows(outcome) ==
  LET id == Len(ops) + 1
      src == <<"op", id>>
  IN /\ Len(ops) < MaxOps
     /\ IF ~rendered.isInitialized
        THEN /\ ops' = Append(ops, Call("getQueueSize", <<>>, "not-initialized"))
             /\ events' = Append(events, Result(src, NoError, 0))
             /\ sdkLog' = sdkLog
        ELSE /\ sdkLog' = Append(sdkLog,
                  [fn |-> "getQueueSize", args |-> <<>>, id |-> id])
             /\ IF outcome.throws
                THEN /\ ops' = Append(ops,
                          [Call("getQueueSize", <<>>, "failed")
                             EXCEPT !.cause = outcome.cause])
                     /\ events' = events
                          \o <<Result(src,
                                 LoopKitTrackingError(<<"Failed to get queue size">>,
                                                      ToError(outcome.cause)), 0)>>
                ELSE /\ ops' = Append(ops,
                          [Call("getQueueSize", <<>>, "ok")
                             EXCEPT !.returned = outcome.size])
                     /\ events' = Append(events, Result(src, NoError, outcome.size))
     /\ UNCHANGED <<props, rendered, isInitialized, isLoading, error,
                    currentConfig, dirty, inflight, initDone>>

\* getQueueSize, lines 266-279; `outcome` is what LoopKit.getQueueSize() does:
\* return a size, or throw a cause.
getQueueSize(outcome) ==
  LET id == Len(ops) + 1
      src == <<"op", id>>
  IN /\ Len(ops) < MaxOps
     /\ IF ~rendered.isInitialized
        THEN /\ ops' = Append(ops, Call("getQueueSize", <<>>, "not-initialized"))
             /\ events' = Append(events, Result(src, NoError, 0))
             /\ sdkLog' = sdkLog
        ELSE /\ sdkLog' = Append(sdkLog,
                  [fn |-> "getQueueSize", args |-> <<>>, id |-> id])
             /\ IF outcome.throws
                THEN /\ ops' = Append(ops,
                          [Call("getQueueSize", <<>>, "failed")
                             EXCEPT !.cause = outcome.cause])
                     /\ events' = events
                          \o NotifyError(rendered.onError, src, ToError(outcome.cause))
                          \o <<Result(src, NoError, 0)>>
                ELSE /\ ops' = Append(ops,
                          [Call("getQueueSize", <<>>, "ok")
                             EXCEPT !.returned = outcome.size])
                     /\ events' = Append(events, Result(src, NoError, outcome.size))
     /\ UNCHANGED <<props, rendered, isInitialized, isLoading, error,
                    currentConfig, dirty, inflight, initDone>>

\* configureWithin merging the options into the cached config before the
\* external call, so that a throwing LoopKit.configure leaves them cached.
configureWithinCachesFirst(bound, options, outcome) ==
  LET id == Len(ops) + 1
      src == <<"op", id>>
      err == LoopKitTrackingError(FailureMessage("configure", <<options>>),
                                  ToError(outcome.cause))
  IN /\ Len(ops) < bound
     /\ IF ~rendered.isInitialized
        THEN /\ ops' = Append(ops, Call("configure", <<options>>, "not-initialized"))
             /\ events' = Append(events,
                  Result(src, LoopKitTrackingError(NotInitializedMessage, Undefined), 0))
             /\ UNCHANGED <<sdkLog, currentConfig, dirty>>
        ELSE /\ sdkLog' = Append(sdkLog,
                  [fn |-> "configure", args |-> <<options>>, id |-> id])
             /\ IF outcome.throws
                THEN /\ ops' = Append(ops,
                          [Call("configure", <<options>>, "failed")
                             EXCEPT !.cause = outcome.cause])
                     /\ events' = events \o NotifyError(rendered.onError, src, err)
                                         \o <<Result(src, err, 0)>>
                     /\ currentConfig' =
                          [id |-> FreshId, val |-> Spread(currentConfig.val, options)]
                     /\ dirty' = TRUE
                ELSE /\ ops' = Append(ops, Call("configure", <<options>>, "ok"))
                     /\ currentConfig' =
                          [id |-> FreshId, val |-> Spread(currentConfig.val, options)]
                     /\ dirty' = TRUE
                     /\ events' = Append(events, Result(src, NoError, 0))
     /\ UNCHANGED <<props, rendered, isInitialized, isLoading, error,
                    inflight, initDone>>

\* configure, lines 282-304; `outcome` is what LoopKit.configure(options) does.
\* At most `bound` operations are called in a behaviour.
configureWithin(bound, options, outcome) ==
  LET id == Len(ops) + 1
      src == <<"op", id>>
      err == LoopKitTrackingError(FailureMessage("configure", <<options>>),
                                  ToError(outcome.cause))
  IN /\ Len(ops) < bound
     /\ IF ~rendered.isInitialized
        THEN /\ ops' = Append(ops, Call("configure", <<options>>, "not-initialized"))
             /\ events' = Append(events,
                  Result(src, LoopKitTrackingError(NotInitializedMessage, Undefined), 0))
             /\ UNCHANGED <<sdkLog, currentConfig, dirty>>
        ELSE /\ sdkLog' = Append(sdkLog,
                  [fn |-> "configure", args |-> <<options>>, id |-> id])
             /\ IF outcome.throws
                THEN /\ ops' = Append(ops,
                          [Call("configure", <<options>>, "failed")
                             EXCEPT !.cause = outcome.cause])
                     /\ events' = events \o NotifyError(rendered.onError, src, err)
                                         \o <<Result(src, err, 0)>>
                     /\ UNCHANGED <<currentConfig, dirty>>
                ELSE /\ ops' = Append(ops, Call("configure", <<options>>, "ok"))
                     /\ currentConfig' =
                          [id |-> FreshId, val |-> Spread(currentConfig.val, options)]
                     /\ dirty' = TRUE
                     /\ events' = Append(events, Result(src, NoError, 0))
     /\ UNCHANGED <<props, rendered, isInitialized, isLoading, error,
                    inflight, initDone>>

configure(options, outcome) ==
  configureWithin(MaxOps, options, outcome)

\* What a synchronous external call can do.
Outcomes ==
  {[throws |-> FALSE, cause |-> Undefined, size |-> n] : n \in QueueSizes}
    \cup {[throws |-> TRUE, cause |-> c, size |-> 0] : c \in Causes}
-----------------------------------------------------------------------------

\* The state after the provider has mounted: first render committed and the
\* init effect has started the first initializeLoopKit run.
ProviderInit ==
  \E config \in {Omitted} \cup {[id |-> 1, val |-> v] : v \in ConfigVals},
     onError \in {None, "onError1"}, onInitialized \in {None, "onInitialized1"} :
    LET cfg == IF config = Omitted THEN [id |-> 1, val |-> EmptyConfig] ELSE config
    IN /\ props = [apiKey |-> "key1", config |-> config, onError |-> onError,
                   onInitialized |-> onInitialized]
       /\ rendered = [apiKey |-> "key1", config |-> cfg, onError |-> onError,
                      onInitialized |-> onInitialized, isInitialized |-> FALSE]
       /\ isInitialized = FALSE
       /\ isLoading = TRUE
       /\ error = NoError
       /\ currentConfig = NullConfig
       /\ dirty = FALSE
       /\ inflight = {[id |-> 1, apiKey |-> "key1", config |-> cfg,
                       onError |-> onError, onInitialized |-> onInitialized]}
       /\ initDone = (1 :> Started(onError, onInitialized))
       /\ ops = <<>>
       /\ sdkLog = <<[fn |-> "init", args |-> <<"key1", cfg.val>>, id |-> 1]>>
       /\ events = <<>>

\* No consumer component uses a hook.
NoHook == [kind |-> "none"]
NoWindow == [pathname |-> "undefined"]

Init ==
  /\ ProviderInit
  /\ hook = NoHook
  /\ window = NoWindow
  /\ hookLog = <<>>

Next ==
  \/ \E p \in NextProps : ParentRender(p) /\ UNCHANGED hookVars
  \/ StateRender /\ UNCHANGED hookVars
  \/ \E r \in inflight, throws \in BOOLEAN :
       InitResolved(r, throws) /\ UNCHANGED hookVars
  \/ \E r \in inflight, cause \in Causes :
       InitRejected(r, cause) /\ UNCHANGED hookVars

Spec == Init /\ [][Next]_vars

-----------------------------------------------------------------------------
(* The consumer's calls of the delegating operations, made at any point of *)
(* the lifecycle: the provider is mounted with an explicit config and no   *)
(* onInitialized, and its parent adds or removes onError.                  *)

OpsOnErrorFns == {None, "onError1"}
OpsInitCauses == {[type |-> "Error", text |-> "boom"]}

InitOps ==
  /\ Init
  /\ props.config # Omitted
  /\ props.config.val = EmptyConfig
  /\ props.onInitialized = None

NextOps ==
  \/ \E f \in OpsOnErrorFns :
       ParentRender([props EXCEPT !.onError = f]) /\ UNCHANGED hookVars
  \/ StateRender /\ UNCHANGED hookVars
  \/ \E r \in inflight : InitResolved(r, FALSE) /\ UNCHANGED hookVars
  \/ \E r \in inflight, cause \in OpsInitCauses :
       InitRejected(r, cause) /\ UNCHANGED hookVars
  \/ \E n \in EventNames, p \in Properties, o \in TrackOptionVals :
       track(n, p, o) /\ UNCHANGED hookVars
  \/ \E b \in Batches : trackBatch(b) /\ UNCHANGED hookVars
  \/ \E u \in UserIds, p \in Properties : identify(u, p) /\ UNCHANGED hookVars
  \/ \E g \in GroupIds, p \in Properties, t \in GroupTypes :
       group(g, p, t) /\ UNCHANGED hookVars
  \/ flush /\ UNCHANGED hookVars
  \/ \E i \in 1..MaxOps : DelegateResolved(i) /\ UNCHANGED hookVars
  \/ \E i \in 1..MaxOps, cause \in Causes :
       DelegateRejected(i, cause) /\ UNCHANGED hookVars
  \/ \E outcome \in Outcomes : getQueueSize(outcome) /\ UNCHANGED hookVars
  \/ \E options \in OptionVals, outcome \in Outcomes :
       configure(options, outcome) /\ UNCHANGED hookVars

OpsSpec == InitOps /\ [][NextOps]_vars

\* Several operations called one after another, awaited or not: each call
\* runs up to its `await` before the caller can make the next one.
OrderedOps ==
  {[op |-> "track", args |-> <<n, p, o>>] :
     n \in EventNames, p \in Properties, o \in TrackOptionVals}
    \cup {[op |-> "identify", args |-> <<u, p>>] : u \in UserIds, p \in Properties}
    \cup {[op |-> "flush", args |-> <<>>]}

InitOrder == InitOps /\ props.onError = None

NextOrder ==
  \/ StateRender /\ UNCHANGED hookVars
  \/ \E r \in inflight : InitResolved(r, FALSE) /\ UNCHANGED hookVars
  \/ \E c \in OrderedOps :
       DelegateWithin(MaxCalls, c.op, c.args, c.args) /\ UNCHANGED hookVars
  \/ \E i \in 1..MaxCalls : DelegateResolved(i) /\ UNCHANGED hookVars
  \/ \E i \in 1..MaxCalls, cause \in OpsInitCauses :
       DelegateRejected(i, cause) /\ UNCHANGED hookVars

OrderSpec == InitOrder /\ [][NextOrder]_vars

\* Initialization and configure interleaved: the parent passes new config
\* objects and the consumer calls configure several times.
ConfigureOptions == {[debug |-> FALSE], [batchSize |-> 5]}
ConfigureOutcomes ==
  {[throws |-> FALSE, cause |-> Undefined, size |-> 0]}
    \cup {[throws |-> TRUE, cause |-> c, size |-> 0] : c \in OpsInitCauses}

InitConfig == InitOps /\ props.onError = None

NextConfig ==
  \/ \E v \in ConfigVals :
       ParentRender([props EXCEPT !.config = [id |-> FreshId, val |-> v]])
         /\ UNCHANGED hookVars
  \/ StateRender /\ UNCHANGED hookVars
  \/ \E r \in inflight : InitResolved(r, FALSE) /\ UNCHANGED hookVars
  \/ \E r \in inflight, cause \in OpsInitCauses :
       InitRejected(r, cause) /\ UNCHANGED hookVars
  \/ \E o \in ConfigureOptions, outcome \in ConfigureOutcomes :
       configureWithin(MaxCalls, o, outcome) /\ UNCHANGED hookVars

ConfigSpec == InitConfig /\ [][NextConfig]_vars

\* The guarded operations called at any point of a lifecycle in which the
\* parent passes new config objects, so that the provider initializes again
\* after it has settled; the operations' external calls may fail.
InitGuarded == InitOps

NextGuarded ==
  \/ ParentRender([props EXCEPT !.config = [id |-> FreshId, val |-> EmptyConfig]])
       /\ UNCHANGED hookVars
  \/ StateRender /\ UNCHANGED hookVars
  \/ \E r \in inflight : InitResolved(r, FALSE) /\ UNCHANGED hookVars
  \/ \E r \in inflight, cause \in OpsInitCauses :
       InitRejected(r, cause) /\ UNCHANGED hookVars
  \/ \E n \in EventNames, p \in Properties :
       track(n, p, "undefined") /\ UNCHANGED hookVars
  \/ \E b \in Batches : trackBatch(b) /\ UNCHANGED hookVars
  \/ \E u \in UserIds, p \in Properties : identify(u, p) /\ UNCHANGED hookVars
  \/ \E g \in GroupIds, p \in Properties, t \in GroupTypes :
       group(g, p, t) /\ UNCHANGED hookVars
  \/ flush /\ UNCHANGED hookVars
  \/ \E o \in OptionVals, outcome \in ConfigureOutcomes :
       configure(o, outcome) /\ UNCHANGED hookVars
  \/ \E i \in 1..MaxOps, cause \in OpsInitCauses :
       DelegateRejected(i, cause) /\ UNCHANGED hookVars

GuardedSpec == InitGuarded /\ [][NextGuarded]_vars

\* The lifecycle with callbacks that may throw: the provider is mounted with
\* an explicit config, the parent adds, replaces or removes onInitialized,
\* and a registered onInitialized returns or throws.
InitCallbacks ==
  /\ Init
  /\ props.config # Omitted
  /\ props.config.val = EmptyConfig

NextCallbacks ==
  \/ \E f \in OnInitializedFns \ {"onInitialized2"} :
       ParentRender([props EXCEPT !.onInitialized = f]) /\ UNCHANGED hookVars
  \/ StateRender /\ UNCHANGED hookVars
  \/ \E r \in inflight, throws \in BOOLEAN :
       InitResolved(r, throws) /\ UNCHANGED hookVars
  \/ \E r \in inflight, cause \in OpsInitCauses :
       InitRejected(r, cause) /\ UNCHANGED hookVars

CallbackSpec == InitCallbacks /\ [][NextCallbacks]_vars

-----------------------------------------------------------------------------
(* Properties of the initialization lifecycle (Spec)                       *)

Ready == isInitialized /\ error = NoError
Errored == ~isInitialized /\ error # NoError
LastInit == NumInits
Settled(id) == initDone[id].status # "pending"
InitArgs(id) == (CHOOSE e \in {sdkLog[i] : i \in 1..Len(sdkLog)} :
                   e.fn = "init" /\ e.id = id).args
EventsOf(kind, src) ==
  {i \in 1..Len(events) : events[i].ev = kind /\ events[i].src = src}
NewEvents == {i \in 1..Len(events') : i > Len(events)}

\* C1: whenever no initialize run is in flight, exactly one of
\* {isInitialized, error = null} and {~isInitialized, error # null} holds,
\* and isLoading is false.
C1_SettledReadyOrErrored ==
  inflight = {} => (~isLoading /\ (Ready \/ Errored))

\* C3: once two or more overlapping initialize runs have all settled, the
\* lifecycle state is the outcome of the run started last: ready with that
\* run's config when it succeeded, errored when it failed.
C3_LatestInitWins ==
  inflight = {} =>
    /\ initDone[LastInit].status = "resolved" =>
         Ready /\ currentConfig.val = InitArgs(LastInit)[2]
    /\ initDone[LastInit].status \in {"rejected", "resolved-threw"} => Errored

\* A step in which the external init is called.
InitStarted == NumInits' = NumInits + 1

\* C4: a re-render with the same apiKey, the same callbacks and a config
\* that is structurally equal to the previous one (a newly constructed
\* object, or the default of an omitted prop) does not call init again.
C4_EqualConfigNoInit ==
  [][(/\ rendered'.apiKey = rendered.apiKey
      /\ rendered'.config.val = rendered.config.val
      /\ rendered'.onError = rendered.onError
      /\ rendered'.onInitialized = rendered.onInitialized) => ~InitStarted]_vars

\* C5: init is called once per (apiKey, config) given to the provider: a
\* re-render that keeps the apiKey and the config object, such as one that
\* only replaces onError or onInitialized, does not call init again.
C5_InitOncePerKeyAndConfig ==
  [][(rendered'.apiKey = rendered.apiKey /\ rendered'.config = rendered.config)
       => ~InitStarted]_vars

\* C6: a render that changes the apiKey or the config calls init once more,
\* with the new apiKey and config, and the lifecycle is loading with error
\* cleared from then until that call settles.
C6_ReinitOnChange ==
  [][/\ (rendered'.apiKey # rendered.apiKey
           \/ rendered'.config.val # rendered.config.val)
          => /\ InitStarted
             /\ InitArgs(LastInit)' = <<rendered'.apiKey, rendered'.config.val>>
     /\ initDone'[LastInit'].status = "pending"
          => isLoading' /\ error' = NoError]_vars

\* C9: onInitialized is called exactly once for each initialize run whose
\* external init succeeded (when the run has the callback), after the state
\* was set to ready, and never for a run whose external init failed.
C9_OnInitializedOncePerSuccess ==
  \A id \in DOMAIN initDone :
    LET calls == EventsOf("onInitialized", <<"init", id>>)
    IN IF /\ initDone[id].status \in {"resolved", "resolved-threw"}
          /\ initDone[id].onInitialized # None
       THEN /\ Cardinality(calls) = 1
            /\ \A i \in calls : events[i].ready
       ELSE calls = {}

\* An initialize run with an onInitialized callback has succeeded and another
\* has failed.
C9_Witness ==
  /\ \E id \in DOMAIN initDone :
       initDone[id].status = "resolved" /\ initDone[id].onInitialized # None
  /\ \E id \in DOMAIN initDone :
       initDone[id].status = "rejected" /\ initDone[id].onInitialized # None

\* C10: the function invoked as onError or onInitialized is the one the
\* consumer supplied most recently at the moment of the invocation.
C10_LatestCallbackInvoked ==
  [][\A i \in NewEvents :
       events'[i].ev \in {"onError", "onInitialized"}
         => events'[i].fn = props[events'[i].ev]]_vars

\* C11: when the external init rejects with a cause, the state becomes
\* isInitialized = false, isLoading = false, error = a
\* LoopKitInitializationError whose originalError is the cause (a non-Error
\* cause as Error(String(cause))), the run's onError (if any) is called once
\* with that same error, and nothing is raised out of the run.
C11_InitFailureCaptured ==
  [][\A id \in DOMAIN initDone :
       (initDone[id].status = "pending" /\ initDone'[id].status = "rejected") =>
         /\ ~isInitialized' /\ ~isLoading'
         /\ error'.name = "LoopKitInitializationError"
         /\ error'.originalError =
              [type |-> "Error", text |-> initDone'[id].cause.text]
         /\ \A i \in NewEvents : events'[i].ev # "result"
         /\ initDone[id].onError # None =>
              /\ Cardinality(NewEvents) = 1
              /\ \A i \in NewEvents :
                   /\ events'[i].ev = "onError"
                   /\ events'[i].src = <<"init", id>>
                   /\ events'[i].err = error']_vars

\* An initialize run with an onError has been rejected with a cause that is
\* not an Error, and the provider is in the error state.
C11_Witness ==
  \E id \in DOMAIN initDone :
    /\ initDone[id].status = "rejected"
    /\ initDone[id].cause.type = "string"
    /\ initDone[id].onError # None
    /\ ~isInitialized /\ ~isLoading
    /\ error.originalError.text = initDone[id].cause.text

-----------------------------------------------------------------------------
(* Properties of the delegating operations (OpsSpec)                       *)

Guarded == {"track", "trackBatch", "identify", "group", "flush", "configure"}
SdkCallsOf(i) ==
  {j \in 1..Len(sdkLog) : sdkLog[j].fn # "init" /\ sdkLog[j].id = i}
ResultOf(i) == events[CHOOSE j \in EventsOf("result", <<"op", i>>) : TRUE]

C7_FailureWrapped ==
  \A i \in 1..Len(ops) :
    (ops[i].op \in Guarded /\ ops[i].outcome = "failed") =>
      /\ EventsOf("result", <<"op", i>>) # {}
      /\ LET e == ResultOf(i).err
         IN /\ e.name = "LoopKitTrackingError"
            /\ e.code = "TRACKING_ERROR"
            /\ e.originalError = [type |-> "Error", text |-> ops[i].cause.text]
            /\ e # ops[i].cause
            /\ ops[i].onError # None =>
                 \E j \in EventsOf("onError", <<"op", i>>) :
                   /\ events[j].err = e
                   /\ events[j].fn = ops[i].onError
                   /\ \A k \in EventsOf("result", <<"op", i>>) : j < k

\* The external call of a guarded operation with an onError failed with a
\* cause that is not an Error.
C7_Witness ==
  \E i \in 1..Len(ops) :
    /\ ops[i].op \in Guarded
    /\ ops[i].outcome = "failed"
    /\ ops[i].cause.type = "string"
    /\ ops[i].onError # None

\* C8: onError is called exactly once for each failed initialize and for
\* each failing call of a delegated operation, and not for a call that
\* succeeds (counted for runs and calls that have an onError).
C8_OnErrorOncePerFailure ==
  /\ \A id \in DOMAIN initDone :
       (Settled(id) /\ initDone[id].onError # None) =>
         Cardinality(EventsOf("onError", <<"init", id>>)) =
           IF initDone[id].status = "resolved" THEN 0 ELSE 1
  /\ \A i \in 1..Len(ops) :
       (ops[i].outcome # "pending" /\ ops[i].onError # None) =>
         Cardinality(EventsOf("onError", <<"op", i>>)) =
           IF \/ ops[i].outcome = "failed"
              \/ ResultOf(i).err # NoError
           THEN 1 ELSE 0

\* C12: each track(name, properties, options) made while initialized gives
\* exactly one external track call, with the same three arguments.
C12_TrackDelegatedVerbatim ==
  \A i \in 1..Len(ops) :
    (ops[i].op = "track" /\ ops[i].ready) =>
      /\ Cardinality(SdkCallsOf(i)) = 1
      /\ \A j \in SdkCallsOf(i) :
           sdkLog[j].fn = "track" /\ sdkLog[j].args = ops[i].args

\* track was called with options while initialized.
C12_Witness ==
  \E i \in 1..Len(ops) :
    /\ ops[i].op = "track" /\ ops[i].ready
    /\ ops[i].args[3] # "undefined"
    /\ SdkCallsOf(i) # {}

\* C13: each group(groupId, properties, groupType) made while initialized
\* gives one external group call with the same three arguments, groupType
\* included.
C13_GroupDelegatedVerbatim ==
  \A i \in 1..Len(ops) :
    (ops[i].op = "group" /\ ops[i].ready) =>
      /\ Cardinality(SdkCallsOf(i)) = 1
      /\ \A j \in SdkCallsOf(i) :
           sdkLog[j].fn = "group" /\ sdkLog[j].args = ops[i].args

\* C14: getQueueSize called while isInitialized is false returns 0, raises
\* nothing, does not call the external getQueueSize and does not call onError.
C14_QueueSizeZeroBeforeInit ==
  \A i \in 1..Len(ops) :
    (ops[i].op = "getQueueSize" /\ ~ops[i].ready) =>
      /\ EventsOf("result", <<"op", i>>) # {}
      /\ ResultOf(i).err = NoError
      /\ ResultOf(i).value = 0
      /\ SdkCallsOf(i) = {}
      /\ EventsOf("onError", <<"op", i>>) = {}

\* getQueueSize was called while not initialized, with an onError registered.
C14_Witness ==
  \E i \in 1..Len(ops) :
    /\ ops[i].op = "getQueueSize"
    /\ ~ops[i].ready
    /\ ops[i].onError # None

\* C15: getQueueSize never raises: when initialized it returns the external
\* queue size, and when the external call throws it calls onError (if any)
\* and returns 0.
C15_QueueSizeNeverRaises ==
  \A i \in 1..Len(ops) :
    ops[i].op = "getQueueSize" =>
      /\ EventsOf("result", <<"op", i>>) # {}
      /\ ResultOf(i).err = NoError
      /\ (ops[i].ready /\ ops[i].outcome = "ok") =>
           ResultOf(i).value = ops[i].returned
      /\ ops[i].outcome = "failed" =>
           /\ ResultOf(i).value = 0
           /\ ops[i].onError # None =>
                Cardinality(EventsOf("onError", <<"op", i>>)) = 1

\* The external getQueueSize threw under a getQueueSize call with an onError.
C15_Witness ==
  \E i \in 1..Len(ops) :
    /\ ops[i].op = "getQueueSize"
    /\ ops[i].outcome = "failed"
    /\ ops[i].onError # None

IsLoopKitError(e) ==
  /\ "name" \in DOMAIN e
  /\ e.name \in {"LoopKitInitializationError", "LoopKitTrackingError"}

\* C16: every error raised to the caller of an operation or passed to
\* onError is a LoopKitInitializationError or a LoopKitTrackingError.
C16_OnlyLoopKitErrors ==
  \A i \in 1..Len(events) :
    events[i].err # NoError => IsLoopKitError(events[i].err)

-----------------------------------------------------------------------------
(* Hooks (src/src/hooks.ts) of a consumer component mounted under the      *)
(* provider. The component renders whenever the provider renders (the      *)
(* context value is a new object on every provider render) and whenever    *)
(* its own parent renders it; its effects run in the same commit.          *)

Windows ==
  {[pathname |-> "/a", href |-> "http://localhost/a", title |-> "A",
    referrer |-> ""],
   [pathname |-> "/b", href |-> "http://localhost/b", title |-> "B",
    referrer |-> "http://localhost/a"]}

\* const isBrowser = typeof window !== 'undefined'
isBrowser == window # NoWindow

\* a || b on optional strings: undefined, null and '' are falsy
Truthy(a) == a \notin {None, ""}
OrElse(a, b) == IF Truthy(a) THEN a ELSE b

\* An argument that is undefined, and objects [id, val]: two references are
\* the same object iff their ids are equal. Only the references of
\* consecutive renders are ever compared, so two ids suffice.
NoObject == [id |-> 2, val |-> None]
EmptyObject == <<>>
NewId(prev) == IF prev = 0 THEN 1 ELSE 0

\* The object arguments a re-render can pass where the previous render
\* passed arg (lastId is the id of the object the hook saw then): nothing,
\* the same object, or a newly constructed one.
ObjectArgs(arg, lastId, vals) ==
  {NoObject, arg} \cup {[id |-> NewId(lastId), val |-> v] : v \in vals}

\* The object argument of a re-render in which the component passes what it
\* passed before, by the same reference or as an equal new object.
SameOrFresh(arg, lastId) ==
  IF arg = NoObject THEN {NoObject} ELSE {arg, [id |-> NewId(lastId), val |-> arg.val]}

\* track, identify, ... are useCallback(..., [isInitialized, onError]): a new
\* function whenever one of the two differs from the previous render.
CallbackIdentity == <<rendered'.isInitialized, rendered'.onError>>

\* A call by a hook into the context bundle, with the context it was made in.
HookCall(by, input, calls) ==
  [by |-> by, input |-> input, window |-> window,
   ready |-> rendered'.isInitialized, calls |-> calls]

\* window.location / history changes (the router navigates).
Navigate(w) ==
  /\ isBrowser
  /\ w # window
  /\ window' = w
  /\ UNCHANGED <<hook, hookLog>>

RouteNames == {None, "home"}
RouteParamVals == {"{id: 7}"}

\* useRouteTracking emitting on every run of its effect, without the
\* comparison with previousRoute.current.
useRouteTrackingNoRef(routeName, routeParamsArg) ==
  LET routeParams == IF routeParamsArg = NoObject
                       THEN [id |-> NewId(hook.deps[2]), val |-> EmptyObject]
                       ELSE routeParamsArg
      deps == <<routeName, routeParams.id, CallbackIdentity,
                rendered'.isInitialized>>
      currentRoute == OrElse(routeName, window.pathname)
      tracks == /\ deps # hook.deps
                /\ rendered'.isInitialized /\ isBrowser
  IN /\ hook' = [kind |-> "useRouteTracking", routeName |-> routeName,
                 routeParams |-> routeParamsArg, deps |-> deps,
                 previousRoute |-> IF tracks THEN currentRoute
                                   ELSE hook.previousRoute]
     /\ IF tracks
        THEN /\ Len(hookLog) < MaxHookCalls
             /\ hookLog' = Append(hookLog,
                  HookCall("useRouteTracking", <<routeName, routeParams.val>>,
                    <<[fn |-> "track",
                       args |-> <<"route_change",
                                  [route |-> currentRoute,
                                   route_name |-> routeName,
                                   route_params |-> routeParams.val,
                                   page |-> window.pathname,
                                   url |-> window.href,
                                   source |-> "react_router"]>>]>>))
        ELSE hookLog' = hookLog
     /\ window' = window

\* useRouteTracking(routeName, routeParams = {}), lines 354-380: one render
\* of the hook and the run of its effect, deps
\* [routeName, routeParams, track, isInitialized].
useRouteTracking(routeName, routeParamsArg) ==
  LET routeParams == IF routeParamsArg = NoObject
                       THEN [id |-> NewId(hook.deps[2]), val |-> EmptyObject]
                       ELSE routeParamsArg
      deps == <<routeName, routeParams.id, CallbackIdentity,
                rendered'.isInitialized>>
      currentRoute == OrElse(routeName, window.pathname)
      tracks == /\ deps # hook.deps
                /\ rendered'.isInitialized /\ isBrowser
                /\ currentRoute # hook.previousRoute
  IN /\ hook' = [kind |-> "useRouteTracking", routeName |-> routeName,
                 routeParams |-> routeParamsArg, deps |-> deps,
                 previousRoute |-> IF tracks THEN currentRoute
                                   ELSE hook.previousRoute]
     /\ IF tracks
        THEN /\ Len(hookLog) < MaxHookCalls
             /\ hookLog' = Append(hookLog,
                  HookCall("useRouteTracking", <<routeName, routeParams.val>>,
                    <<[fn |-> "track",
                       args |-> <<"route_change",
                                  [route |-> currentRoute,
                                   route_name |-> routeName,
                                   route_params |-> routeParams.val,
                                   page |-> window.pathname,
                                   url |-> window.href,
                                   source |-> "react_router"]>>]>>))
        ELSE hookLog' = hookLog
     /\ window' = window

\* The provider is mounted as in InitOps, in a browser or outside one, with
\* a component that uses useRouteTracking: the effect of the mount runs
\* while isInitialized is false.
HookProviderInit ==
  /\ ProviderInit
  /\ props.config # Omitted
  /\ props.config.val = EmptyConfig
  /\ props.onInitialized = None

InitRoute ==
  /\ HookProviderInit
  /\ window \in Windows \cup {NoWindow}
  /\ \E routeName \in RouteNames,
        arg \in {NoObject} \cup {[id |-> 0, val |-> v] : v \in RouteParamVals} :
       hook = [kind |-> "useRouteTracking", routeName |-> routeName,
               routeParams |-> arg,
               deps |-> <<routeName, 0, <<FALSE, props.onError>>, FALSE>>,
               previousRoute |-> ""]
  /\ hookLog = <<>>

\* The component under a re-rendering provider passes the route it passed
\* before; rendered by its own parent it passes any route.
NextRoute ==
  \/ \E f \in OpsOnErrorFns, a \in SameOrFresh(hook.routeParams, hook.deps[2]) :
       /\ ParentRender([props EXCEPT !.onError = f])
       /\ useRouteTracking(hook.routeName, a)
  \/ \E a \in SameOrFresh(hook.routeParams, hook.deps[2]) :
       /\ StateRender
       /\ useRouteTracking(hook.routeName, a)
  \/ \E r \in inflight : InitResolved(r, FALSE) /\ UNCHANGED hookVars
  \/ \E r \in inflight, cause \in OpsInitCauses :
       InitRejected(r, cause) /\ UNCHANGED hookVars
  \/ \E routeName \in RouteNames,
        a \in ObjectArgs(hook.routeParams, hook.deps[2], RouteParamVals) :
       /\ UNCHANGED providerVars
       /\ useRouteTracking(routeName, a)
  \/ \E w \in Windows : Navigate(w) /\ UNCHANGED providerVars

RouteSpec == InitRoute /\ [][NextRoute]_vars

-----------------------------------------------------------------------------
(* Auto-identification: the effect of useLoopKit (lines 43-47) and          *)
(* useIdentify (lines 203-214)                                              *)

UserIdArgs == {None, "", "u1", "u2"}
UserPropertyVals == {"{plan: pro}"}

\* useLoopKit({userId, userProperties, autoIdentify = false}), lines 23-47:
\* one render of the hook and the run of its auto-identify effect, deps
\* [autoIdentify, userId, userProperties, isInitialized, identify].
useLoopKit(options) ==
  LET deps == <<options.autoIdentify, options.userId, options.userProperties.id,
                rendered'.isInitialized, CallbackIdentity>>
      identifies == /\ deps # hook.deps
                    /\ options.autoIdentify /\ Truthy(options.userId)
                    /\ rendered'.isInitialized
  IN /\ hook' = [kind |-> "useLoopKit", userId |-> options.userId,
                 userProperties |-> options.userProperties,
                 autoIdentify |-> options.autoIdentify, deps |-> deps]
     /\ IF identifies
        THEN /\ Len(hookLog) < MaxHookCalls
             /\ hookLog' = Append(hookLog,
                  HookCall("useLoopKit",
                    <<options.userId, options.userProperties.val,
                      options.autoIdentify>>,
                    <<[fn |-> "identify",
                       args |-> <<options.userId, options.userProperties.val>>]>>))
        ELSE hookLog' = hookLog
     /\ window' = window

\* useIdentify without the isInitialized test of its effect.
useIdentifyUnguarded(userId, properties) ==
  LET deps == <<userId, properties.id, rendered'.isInitialized, CallbackIdentity>>
      identifies == /\ deps # hook.deps
                    /\ Truthy(userId)
  IN /\ hook' = [kind |-> "useIdentify", userId |-> userId,
                 userProperties |-> properties, deps |-> deps]
     /\ IF identifies
        THEN /\ Len(hookLog) < MaxHookCalls
             /\ hookLog' = Append(hookLog,
                  HookCall("useIdentify", <<userId, properties.val>>,
                    <<[fn |-> "identify", args |-> <<userId, properties.val>>]>>))
        ELSE hookLog' = hookLog
     /\ window' = window

\* useIdentify(userId, properties), lines 203-214: one render of the hook
\* and the run of its effect, deps [userId, properties, isInitialized, identify].
useIdentify(userId, properties) ==
  LET deps == <<userId, properties.id, rendered'.isInitialized, CallbackIdentity>>
      identifies == /\ deps # hook.deps
                    /\ Truthy(userId) /\ rendered'.isInitialized
  IN /\ hook' = [kind |-> "useIdentify", userId |-> userId,
                 userProperties |-> properties, deps |-> deps]
     /\ IF identifies
        THEN /\ Len(hookLog) < MaxHookCalls
             /\ hookLog' = Append(hookLog,
                  HookCall("useIdentify", <<userId, properties.val>>,
                    <<[fn |-> "identify", args |-> <<userId, properties.val>>]>>))
        ELSE hookLog' = hookLog
     /\ window' = window

\* The options with which the component calls useLoopKit again when it
\* passes what it passed before.
SameOptions ==
  {[userId |-> hook.userId, userProperties |-> p, autoIdentify |-> hook.autoIdentify] :
     p \in SameOrFresh(hook.userProperties, hook.deps[3])}

\* The options of a render by the component's own parent: those of the
\* previous render with one of them replaced.
NextOptions ==
  LET options == [userId |-> hook.userId, userProperties |-> hook.userProperties,
                  autoIdentify |-> hook.autoIdentify]
  IN {[options EXCEPT !.userId = u] : u \in UserIdArgs}
       \cup {[options EXCEPT !.userProperties = p] :
               p \in ObjectArgs(hook.userProperties, hook.deps[3], UserPropertyVals)}
       \cup {[options EXCEPT !.autoIdentify = a] : a \in BOOLEAN}

\* The provider is mounted as in InitOps, with a component that uses
\* useLoopKit or useIdentify: the effect of the mount runs while
\* isInitialized is false.
InitIdentify ==
  /\ HookProviderInit
  /\ window = NoWindow
  /\ \E userId \in UserIdArgs,
        p \in {NoObject} \cup {[id |-> 0, val |-> v] : v \in UserPropertyVals} :
       \/ \E a \in BOOLEAN :
            hook = [kind |-> "useLoopKit", userId |-> userId,
                    userProperties |-> p, autoIdentify |-> a,
                    deps |-> <<a, userId, p.id, FALSE, <<FALSE, props.onError>>>>]
       \/ hook = [kind |-> "useIdentify", userId |-> userId, userProperties |-> p,
                  deps |-> <<userId, p.id, FALSE, <<FALSE, props.onError>>>>]
  /\ hookLog = <<>>

NextIdentify ==
  \/ /\ hook.kind = "useLoopKit"
     /\ \E f \in OpsOnErrorFns, o \in SameOptions :
          /\ ParentRender([props EXCEPT !.onError = f])
          /\ useLoopKit(o)
  \/ /\ hook.kind = "useLoopKit"
     /\ \E o \in SameOptions :
          /\ StateRender
          /\ useLoopKit(o)
  \/ /\ hook.kind = "useLoopKit"
     /\ \E o \in NextOptions :
          /\ UNCHANGED providerVars
          /\ useLoopKit(o)
  \/ /\ hook.kind = "useIdentify"
     /\ \E f \in OpsOnErrorFns, p \in SameOrFresh(hook.userProperties, hook.deps[2]) :
          /\ ParentRender([props EXCEPT !.onError = f])
          /\ useIdentify(hook.userId, p)
  \/ /\ hook.kind = "useIdentify"
     /\ \E p \in SameOrFresh(hook.userProperties, hook.deps[2]) :
          /\ StateRender
          /\ useIdentify(hook.userId, p)
  \/ /\ hook.kind = "useIdentify"
     /\ \E u \in UserIdArgs :
          /\ UNCHANGED providerVars
          /\ useIdentify(u, hook.userProperties)
  \/ /\ hook.kind = "useIdentify"
     /\ \E p \in ObjectArgs(hook.userProperties, hook.deps[2], UserPropertyVals) :
          /\ UNCHANGED providerVars
          /\ useIdentify(hook.userId, p)
  \/ \E r \in inflight : InitResolved(r, FALSE) /\ UNCHANGED hookVars
  \/ \E r \in inflight, cause \in OpsInitCauses :
       InitRejected(r, cause) /\ UNCHANGED hookVars

IdentifySpec == InitIdentify /\ [][NextIdentify]_vars

-----------------------------------------------------------------------------
(* trackPageView, the callback returned by useLoopKit (lines 51-73)        *)

PageNames == {None, "", "Home"}
\* The properties argument left out, or an object.
NoProperties == [undefined |-> TRUE]
PageProperties == {NoProperties, [page |-> "custom", plan |-> "pro"]}

\* trackPageView with the defaults spread after the caller's properties.
trackPageViewDefaultsLast(pageName, properties) ==
  LET given == IF properties = NoProperties THEN EmptyObject ELSE properties
      pageViewProperties ==
        Spread(given,
               [page |-> OrElse(pageName, window.pathname),
                url |-> window.href,
                title |-> window.title,
                referrer |-> window.referrer,
                source |-> "react_manual"])
  IN /\ Len(hookLog) < MaxHookCalls
     /\ IF ~isBrowser
        THEN /\ UNCHANGED providerVars
             /\ hookLog' = Append(hookLog,
                  HookCall("trackPageView", <<pageName, properties>>, <<>>))
        ELSE /\ track("page_view", pageViewProperties, "undefined")
             /\ hookLog' = Append(hookLog,
                  HookCall("trackPageView", <<pageName, properties>>,
                    <<[fn |-> "track",
                       args |-> <<"page_view", pageViewProperties>>]>>))
     /\ UNCHANGED <<hook, window>>

\* trackPageView(pageName?, properties = {}): outside a browser it returns;
\* otherwise it awaits track('page_view', pageViewProperties) of the context
\* bundle of the render that created it.
trackPageView(pageName, properties) ==
  LET given == IF properties = NoProperties THEN EmptyObject ELSE properties
      pageViewProperties ==
        Spread([page |-> OrElse(pageName, window.pathname),
                url |-> window.href,
                title |-> window.title,
                referrer |-> window.referrer,
                source |-> "react_manual"],
               given)
  IN /\ Len(hookLog) < MaxHookCalls
     /\ IF ~isBrowser
        THEN /\ UNCHANGED providerVars
             /\ hookLog' = Append(hookLog,
                  HookCall("trackPageView", <<pageName, properties>>, <<>>))
        ELSE /\ track("page_view", pageViewProperties, "undefined")
             /\ hookLog' = Append(hookLog,
                  HookCall("trackPageView", <<pageName, properties>>,
                    <<[fn |-> "track",
                       args |-> <<"page_view", pageViewProperties>>]>>))
     /\ UNCHANGED <<hook, window>>

\* The provider is mounted as in InitOps, in a browser or outside one, with
\* a component that calls useLoopKit() and, at any point, trackPageView.
InitPageView ==
  /\ HookProviderInit
  /\ window \in Windows \cup {NoWindow}
  /\ hook = [kind |-> "useLoopKit", userId |-> None, userProperties |-> NoObject,
             autoIdentify |-> FALSE,
             deps |-> <<FALSE, None, NoObject.id, FALSE, <<FALSE, props.onError>>>>]
  /\ hookLog = <<>>

\* The provider re-renders on its own state updates only.
NextPageView ==
  \/ \E o \in SameOptions :
       /\ StateRender
       /\ useLoopKit(o)
  \/ \E r \in inflight : InitResolved(r, FALSE) /\ UNCHANGED hookVars
  \/ \E r \in inflight, cause \in OpsInitCauses :
       InitRejected(r, cause) /\ UNCHANGED hookVars
  \/ \E w \in Windows : Navigate(w) /\ UNCHANGED providerVars
  \/ \E pageName \in PageNames, properties \in PageProperties :
       trackPageView(pageName, properties)
  \/ \E i \in 1..MaxOps : DelegateResolved(i) /\ UNCHANGED hookVars

PageViewSpec == InitPageView /\ [][NextPageView]_vars

-----------------------------------------------------------------------------
(* The other callbacks returned by useLoopKit (lines 75-140): trackClick,  *)
(* trackFormSubmit, setUserId, setUserProperties, setGroup                 *)

ElementNames == {"button"}
FormNames == {"signup"}
HelperProperties == {NoProperties, [page |-> "custom", plan |-> "pro"]}
OptionalProperties == {"undefined"} \cup Properties

\* Reading window.location where there is no window
WindowReferenceError == [type |-> "ReferenceError", text |-> "window is not defined"]
UserIdRequired ==
  [type |-> "Error", text |-> "User ID must be set before setting user properties"]

\* A helper that fails before it calls the bundle: its promise rejects.
HelperRejects(by, input, err) ==
  /\ UNCHANGED <<props, rendered, isInitialized, isLoading, error, currentConfig,
                 dirty, inflight, initDone, ops, sdkLog>>
  /\ hookLog' = Append(hookLog, HookCall(by, input, <<>>))
  /\ events' = Append(events, Result(<<"hook", Len(hookLog) + 1>>, err, 0))

\* trackClick with the defaults spread after the caller's properties.
trackClickDefaultsLast(elementName, properties) ==
  LET given == IF properties = NoProperties THEN EmptyObject ELSE properties
  IN /\ Len(hookLog) < MaxHookCalls
     /\ IF ~isBrowser
        THEN HelperRejects("trackClick", <<elementName, properties>>,
                           WindowReferenceError)
        ELSE LET clickProperties ==
                   Spread(given,
                          [element |-> elementName, page |-> window.pathname,
                           source |-> "react_manual"])
             IN /\ track("click", clickProperties, "undefined")
                /\ hookLog' = Append(hookLog,
                     HookCall("trackClick", <<elementName, properties>>,
                       <<[fn |-> "track", args |-> <<"click", clickProperties>>]>>))
     /\ UNCHANGED <<hook, window>>

\* trackClick(elementName, properties = {}), lines 77-92
trackClick(elementName, properties) ==
  LET given == IF properties = NoProperties THEN EmptyObject ELSE properties
  IN /\ Len(hookLog) < MaxHookCalls
     /\ IF ~isBrowser
        THEN HelperRejects("trackClick", <<elementName, properties>>,
                           WindowReferenceError)
        ELSE LET clickProperties ==
                   Spread([element |-> elementName, page |-> window.pathname,
                           source |-> "react_manual"],
                          given)
             IN /\ track("click", clickProperties, "undefined")
                /\ hookLog' = Append(hookLog,
                     HookCall("trackClick", <<elementName, properties>>,
                       <<[fn |-> "track", args |-> <<"click", clickProperties>>]>>))
     /\ UNCHANGED <<hook, window>>

\* trackFormSubmit(formName, properties = {}), lines 95-109
trackFormSubmit(formName, properties) ==
  LET given == IF properties = NoProperties THEN EmptyObject ELSE properties
  IN /\ Len(hookLog) < MaxHookCalls
     /\ IF ~isBrowser
        THEN HelperRejects("trackFormSubmit", <<formName, properties>>,
                           WindowReferenceError)
        ELSE LET formProperties ==
                   Spread([form |-> formName, page |-> window.pathname], given)
             IN /\ track("form_submit", formProperties, "undefined")
                /\ hookLog' = Append(hookLog,
                     HookCall("trackFormSubmit", <<formName, properties>>,
                       <<[fn |-> "track",
                          args |-> <<"form_submit", formProperties>>]>>))
     /\ UNCHANGED <<hook, window>>

\* setUserIdWithin keeping newUserId as the id of the instance.
setUserIdRemembers(calls, bound, newUserId, properties) ==
  /\ Len(hookLog) < calls
  /\ DelegateWithin(bound, "identify", <<newUserId, properties>>,
                    <<newUserId, properties>>)
  /\ hookLog' = Append(hookLog,
       HookCall("setUserId", <<newUserId, properties>>,
         <<[fn |-> "identify", args |-> <<newUserId, properties>>]>>))
  /\ hook' = [hook EXCEPT !.userId = newUserId]
  /\ window' = window

\* setUserId(newUserId, properties?), lines 112-117: at most `calls` helper
\* calls and `bound` operations in a behaviour.
setUserIdWithin(calls, bound, newUserId, properties) ==
  /\ Len(hookLog) < calls
  /\ DelegateWithin(bound, "identify", <<newUserId, properties>>,
                    <<newUserId, properties>>)
  /\ hookLog' = Append(hookLog,
       HookCall("setUserId", <<newUserId, properties>>,
         <<[fn |-> "identify", args |-> <<newUserId, properties>>]>>))
  /\ UNCHANGED <<hook, window>>

setUserId(newUserId, properties) ==
  setUserIdWithin(MaxHookCalls, MaxOps, newUserId, properties)

\* setUserProperties(properties), lines 120-128, of the useLoopKit instance
\* whose userId option is hook.userId: at most `calls` helper calls and
\* `bound` operations in a behaviour.
setUserPropertiesWithin(calls, bound, properties) ==
  /\ Len(hookLog) < calls
  /\ IF ~Truthy(hook.userId)
     THEN HelperRejects("setUserProperties", <<hook.userId, properties>>,
                        UserIdRequired)
     ELSE /\ DelegateWithin(bound, "identify", <<hook.userId, properties>>,
                            <<hook.userId, properties>>)
          /\ hookLog' = Append(hookLog,
               HookCall("setUserProperties", <<hook.userId, properties>>,
                 <<[fn |-> "identify", args |-> <<hook.userId, properties>>]>>))
  /\ UNCHANGED <<hook, window>>

\* setUserProperties without the test of userId.
setUserPropertiesUnchecked(properties) ==
  /\ Len(hookLog) < MaxHookCalls
  /\ identify(hook.userId, properties)
  /\ hookLog' = Append(hookLog,
       HookCall("setUserProperties", <<hook.userId, properties>>,
         <<[fn |-> "identify", args |-> <<hook.userId, properties>>]>>))
  /\ UNCHANGED <<hook, window>>

setUserProperties(properties) ==
  setUserPropertiesWithin(MaxHookCalls, MaxOps, properties)

\* setGroup(groupId, properties?, groupType?), lines 131-140
setGroup(groupId, properties, groupType) ==
  /\ Len(hookLog) < MaxHookCalls
  /\ group(groupId, properties, groupType)
  /\ hookLog' = Append(hookLog,
       HookCall("setGroup", <<groupId, properties, groupType>>,
         <<[fn |-> "group", args |-> <<groupId, properties, groupType>>]>>))
  /\ UNCHANGED <<hook, window>>

\* The provider is mounted as in InitOps, in a browser or outside one, with
\* a component that calls useLoopKit({userId}) and, at any point, one of the
\* callbacks it returns.
InitHelpers ==
  /\ HookProviderInit
  /\ window \in Windows \cup {NoWindow}
  /\ \E userId \in {None, "", "u1"} :
       hook = [kind |-> "useLoopKit", userId |-> userId,
               userProperties |-> NoObject, autoIdentify |-> FALSE,
               deps |-> <<FALSE, userId, NoObject.id, FALSE,
                          <<FALSE, props.onError>>>>]
  /\ hookLog = <<>>

NextHelpers ==
  \/ \E o \in SameOptions :
       /\ StateRender
       /\ useLoopKit(o)
  \/ \E r \in inflight : InitResolved(r, FALSE) /\ UNCHANGED hookVars
  \/ \E r \in inflight, cause \in OpsInitCauses :
       InitRejected(r, cause) /\ UNCHANGED hookVars
  \/ \E e \in ElementNames, p \in HelperProperties : trackClick(e, p)
  \/ \E f \in FormNames, p \in HelperProperties : trackFormSubmit(f, p)
  \/ \E u \in UserIds, p \in OptionalProperties : setUserId(u, p)
  \/ \E p \in Properties : setUserProperties(p)
  \/ \E g \in GroupIds, p \in OptionalProperties, t \in GroupTypes :
       setGroup(g, p, t)
  \/ \E i \in 1..MaxOps : DelegateResolved(i) /\ UNCHANGED hookVars
  \/ \E i \in 1..MaxOps, cause \in OpsInitCauses :
       DelegateRejected(i, cause) /\ UNCHANGED hookVars

HelperSpec == InitHelpers /\ [][NextHelpers]_vars

\* The identity helpers of one useLoopKit instance called one after the
\* other, setUserId also with an id that is not the instance's option.
MaxIdCalls == 3

SetUserIds == UserIds \cup {"u2"}

InitUserId ==
  /\ InitHelpers
  /\ window = NoWindow

NextUserId ==
  \/ \E o \in SameOptions :
       /\ StateRender
       /\ useLoopKit(o)
  \/ \E r \in inflight : InitResolved(r, FALSE) /\ UNCHANGED hookVars
  \/ \E u \in SetUserIds, p \in OptionalProperties :
       setUserIdWithin(MaxIdCalls, MaxIdCalls, u, p)
  \/ \E p \in Properties : setUserPropertiesWithin(MaxIdCalls, MaxIdCalls, p)
  \/ \E i \in 1..MaxIdCalls : DelegateResolved(i) /\ UNCHANGED hookVars

UserIdSpec == InitUserId /\ [][NextUserId]_vars

-----------------------------------------------------------------------------
(* LoopKitErrorBoundary (src/unnamed/part_001, lines 26-123): a class      *)
(* component that calls LoopKit.track itself, not through the provider     *)

Fallbacks == {None, "element", "function"}
BoundaryOnErrorFns == {None, "onBoundaryError"}
EnableTracking == {"undefined", "true", "false"}
RenderErrors == {[type |-> "Error", text |-> "boom2"],
                 [type |-> "TypeError", text |-> "x is undefined"]}
TrackOutcomes == {"returns", "throws", "rejects"}
TrackingFailed == [type |-> "Error", text |-> "Tracking failed"]
NoErrorInfo == [componentStack |-> "null"]
ErrorInfo == [componentStack |-> "at Child"]

BoundaryProps ==
  [fallback : Fallbacks, onError : BoundaryOnErrorFns, enableTracking : EnableTracking]

\* constructor, lines 27-30
InitialBoundaryState == [hasError |-> FALSE, error |-> Undefined, errorInfo |-> NoErrorInfo]

\* static getDerivedStateFromError(error), lines 32-38
getDerivedStateFromError(err) ==
  [hasError |-> TRUE, error |-> err, errorInfo |-> NoErrorInfo]

\* render(), lines 73-122: what the boundary shows
render(state, p) ==
  IF state.hasError
  THEN IF p.fallback # None
       THEN IF p.fallback = "function"
            THEN [shows |-> "fallback(error, errorInfo)", error |-> state.error,
                  errorInfo |-> state.errorInfo]
            ELSE [shows |-> "fallback", error |-> Undefined, errorInfo |-> NoErrorInfo]
       ELSE [shows |-> "default", error |-> state.error, errorInfo |-> state.errorInfo]
  ELSE [shows |-> "children", error |-> Undefined, errorInfo |-> NoErrorInfo]

Boundary(p, state) ==
  [kind |-> "LoopKitErrorBoundary", props |-> p, state |-> state,
   output |-> render(state, p)]

\* componentDidCatch tracking whatever enableTracking is.
componentDidCatchAlwaysTracks(err, errorInfo, outcome) ==
  /\ hook' = Boundary(hook.props, [hasError |-> TRUE, error |-> err, errorInfo |-> errorInfo])
  /\ sdkLog' = Append(sdkLog,
       [fn |-> "track",
        args |-> <<"react_error_boundary",
                   [error_message |-> err.text,
                    error_name |-> err.type,
                    component_stack |-> errorInfo.componentStack,
                    error_boundary |-> TRUE,
                    page |-> IF isBrowser THEN window.pathname ELSE "undefined",
                    url |-> IF isBrowser THEN window.href ELSE "undefined"]>>,
        id |-> 0])
  /\ events' = events
       \o (IF outcome = "throws"
           THEN <<Invoke("console.error", "console", <<"boundary">>, TrackingFailed, FALSE)>>
           ELSE <<>>)
       \o (IF hook.props.onError # None
           THEN <<Invoke("onError", hook.props.onError, <<"boundary">>, err, FALSE)>>
           ELSE <<>>)
       \o (IF outcome = "rejects"
           THEN <<Invoke("unhandledrejection", "window", <<"boundary">>, TrackingFailed, FALSE)>>
           ELSE <<>>)

\* componentDidCatch reporting only under a provider that is initialized,
\* as the context's track would.
componentDidCatchGated(err, errorInfo, outcome) ==
  LET tracks == hook.props.enableTracking # "false" /\ isInitialized
  IN /\ hook' = Boundary(hook.props,
                         [hasError |-> TRUE, error |-> err, errorInfo |-> errorInfo])
     /\ sdkLog' = IF tracks
                  THEN Append(sdkLog,
                         [fn |-> "track",
                          args |-> <<"react_error_boundary",
                                     [error_message |-> err.text,
                                      error_name |-> err.type,
                                      component_stack |-> errorInfo.componentStack,
                                      error_boundary |-> TRUE,
                                      page |-> IF isBrowser THEN window.pathname
                                               ELSE "undefined",
                                      url |-> IF isBrowser THEN window.href
                                              ELSE "undefined"]>>,
                          id |-> 0])
                  ELSE sdkLog
     /\ events' = events
          \o (IF tracks /\ outcome = "throws"
              THEN <<Invoke("console.error", "console", <<"boundary">>,
                            TrackingFailed, FALSE)>>
              ELSE <<>>)
          \o (IF hook.props.onError # None
              THEN <<Invoke("onError", hook.props.onError, <<"boundary">>, err, FALSE)>>
              ELSE <<>>)
          \o (IF tracks /\ outcome = "rejects"
              THEN <<Invoke("unhandledrejection", "window", <<"boundary">>,
                            TrackingFailed, FALSE)>>
              ELSE <<>>)

\* componentDidCatch(error, errorInfo), lines 40-71, and the re-render its
\* setState causes. `outcome` is what LoopKit.track does: the call is not
\* awaited, so only a synchronous throw reaches the catch block.
componentDidCatch(err, errorInfo, outcome) ==
  LET tracks == hook.props.enableTracking # "false"
  IN /\ hook' = Boundary(hook.props,
                         [hasError |-> TRUE, error |-> err, errorInfo |-> errorInfo])
     /\ sdkLog' = IF tracks
                  THEN Append(sdkLog,
                         [fn |-> "track",
                          args |-> <<"react_error_boundary",
                                     [error_message |-> err.text,
                                      error_name |-> err.type,
                                      component_stack |-> errorInfo.componentStack,
                                      error_boundary |-> TRUE,
                                      page |-> IF isBrowser THEN window.pathname
                                               ELSE "undefined",
                                      url |-> IF isBrowser THEN window.href
                                              ELSE "undefined"]>>,
                          id |-> 0])
                  ELSE sdkLog
     /\ events' = events
          \o (IF tracks /\ outcome = "throws"
              THEN <<Invoke("console.error", "console", <<"boundary">>,
                            TrackingFailed, FALSE)>>
              ELSE <<>>)
          \o (IF hook.props.onError # None
              THEN <<Invoke("onError", hook.props.onError, <<"boundary">>, err, FALSE)>>
              ELSE <<>>)
          \o (IF tracks /\ outcome = "rejects"
              THEN <<Invoke("unhandledrejection", "window", <<"boundary">>,
                            TrackingFailed, FALSE)>>
              ELSE <<>>)

\* A child throws err while rendering: React derives the error state,
\* commits the fallback and calls componentDidCatch.
ChildThrows(err, outcome) ==
  /\ hook.kind = "LoopKitErrorBoundary"
  /\ ~hook.state.hasError
  /\ getDerivedStateFromError(err).hasError
  /\ componentDidCatch(err, ErrorInfo, outcome)
  /\ UNCHANGED <<props, rendered, isInitialized, isLoading, error, currentConfig,
                 dirty, inflight, initDone, ops, window, hookLog>>

\* The boundary's parent renders it again, with the props p.
BoundaryRender(p) ==
  /\ hook.kind = "LoopKitErrorBoundary"
  /\ hook' = Boundary(p, hook.state)
  /\ UNCHANGED <<window, hookLog>>

InitBoundary ==
  /\ HookProviderInit
  /\ window \in Windows \cup {NoWindow}
  /\ \E p \in BoundaryProps : hook = Boundary(p, InitialBoundaryState)
  /\ hookLog = <<>>

NextBoundary ==
  \/ \E err \in RenderErrors, outcome \in TrackOutcomes : ChildThrows(err, outcome)
  \/ \E p \in BoundaryProps : BoundaryRender(p) /\ UNCHANGED providerVars
  \/ \E r \in inflight : InitResolved(r, FALSE) /\ UNCHANGED hookVars
  \/ StateRender /\ UNCHANGED hookVars

BoundarySpec == InitBoundary /\ [][NextBoundary]_vars

\* No LoopKitProvider is mounted anywhere: no initializeLoopKit run was
\* started and LoopKit.init was not called.
NoProviderMounted ==
  /\ props = [apiKey |-> None, config |-> Omitted, onError |-> None,
              onInitialized |-> None]
  /\ rendered = [apiKey |-> None, config |-> Omitted, onError |-> None,
                 onInitialized |-> None, isInitialized |-> FALSE]
  /\ isInitialized = FALSE
  /\ isLoading = FALSE
  /\ error = NoError
  /\ currentConfig = NullConfig
  /\ dirty = FALSE
  /\ inflight = {}
  /\ initDone = <<>>
  /\ ops = <<>>
  /\ sdkLog = <<>>
  /\ events = <<>>

\* The boundary stands in a tree without a provider, or beside a provider
\* whose initialization is in flight, succeeds or fails.
InitStandalone ==
  /\ HookProviderInit \/ NoProviderMounted
  /\ window \in Windows \cup {NoWindow}
  /\ \E p \in BoundaryProps : hook = Boundary(p, InitialBoundaryState)
  /\ hookLog = <<>>

NextStandalone ==
  \/ \E err \in RenderErrors, outcome \in TrackOutcomes : ChildThrows(err, outcome)
  \/ \E p \in BoundaryProps : BoundaryRender(p) /\ UNCHANGED providerVars
  \/ \E r \in inflight : InitResolved(r, FALSE) /\ UNCHANGED hookVars
  \/ \E r \in inflight, cause \in OpsInitCauses :
       InitRejected(r, cause) /\ UNCHANGED hookVars
  \/ StateRender /\ UNCHANGED hookVars

StandaloneSpec == InitStandalone /\ [][NextStandalone]_vars

-----------------------------------------------------------------------------
(* useLoopKitContext (src/src/context.tsx, lines 332-340) under a stack of *)
(* enclosing LoopKitProviders, outermost first                             *)

MaxDepth == 2

\* createContext<LoopKitContextValue | undefined>(undefined), line 22
ContextDefault == [undefined |-> TRUE]

\* contextValue, lines 306-319: the bundle of one provider instance
Bundles ==
  [provider : 1..MaxDepth, isInitialized : BOOLEAN, isLoading : BOOLEAN]

ProviderStacks ==
  UNION {[1..n -> Bundles] : n \in 0..MaxDepth}

OutsideProviderError ==
  [type |-> "Error", text |-> "useLoopKitContext must be used within a LoopKitProvider"]

\* useContext reading the outermost provider.
useContextOutermost(providers) ==
  IF providers = <<>> THEN ContextDefault ELSE providers[1]

\* useContext(LoopKitContext): the value of the nearest enclosing
\* <LoopKitContext.Provider>, else the default.
useContext(providers) ==
  IF providers = <<>> THEN ContextDefault ELSE providers[Len(providers)]

useLoopKitContext(providers) ==
  LET context == useContext(providers)
  IN IF context = ContextDefault
     THEN [threw |-> TRUE, error |-> OutsideProviderError, value |-> ContextDefault]
     ELSE [threw |-> FALSE, error |-> Undefined, value |-> context]

NotCalled == [threw |-> FALSE, error |-> Undefined, value |-> ContextDefault]

\* A component under the providers renders and calls useLoopKitContext().
ConsumerRender ==
  /\ hook.kind = "useLoopKitContext"
  /\ ~hook.called
  /\ hook' = [hook EXCEPT !.called = TRUE,
                          !.result = useLoopKitContext(hook.providers)]
  /\ UNCHANGED <<window, hookLog>>

\* The tree above the consumer is rendered with other providers or values.
TreeRender(providers) ==
  /\ hook.kind = "useLoopKitContext"
  /\ hook.called
  /\ hook' = [hook EXCEPT !.called = FALSE, !.providers = providers,
                          !.result = NotCalled]
  /\ UNCHANGED <<window, hookLog>>

InitContext ==
  /\ HookProviderInit
  /\ props.onError = None
  /\ window = NoWindow
  /\ hookLog = <<>>
  /\ \E providers \in {<<>>} \cup {<<b>> : b \in Bundles} :
       hook = [kind |-> "useLoopKitContext", providers |-> providers,
               called |-> FALSE, result |-> NotCalled]

NextContext ==
  \/ ConsumerRender /\ UNCHANGED providerVars
  \/ \E providers \in ProviderStacks : TreeRender(providers) /\ UNCHANGED providerVars

ContextSpec == InitContext /\ [][NextContext]_vars

-----------------------------------------------------------------------------
(* usePerformanceTracking (src/src/hooks.ts, lines 248-342)                *)

MaxRenders == 3

ComponentNames == {"Widget"}
PerformanceOptions ==
  [trackRenderTime : BOOLEAN, trackMounts : BOOLEAN, trackUnmounts : BOOLEAN,
   enabled : BOOLEAN]
DefaultPerformanceOptions ==
  [trackRenderTime |-> TRUE, trackMounts |-> TRUE, trackUnmounts |-> TRUE,
   enabled |-> TRUE]

\* The effect has left no cleanup function behind.
NoCleanup == [set |-> FALSE, trackUnmounts |-> FALSE, componentName |-> ""]

\* The cleanup function of the mount effect, lines 305-317, run at `now`; its
\* track is the one of the render that created it, which was initialized.
Cleanup(c, mountTime, now) ==
  IF c.set /\ c.trackUnmounts /\ isBrowser
  THEN <<[fn |-> "track",
          args |-> <<"component_unmounted",
                     [component_name |-> c.componentName,
                      unmount_time |-> now,
                      component_lifetime_ms |-> now - mountTime]>>]>>
  ELSE <<>>

\* The calls of a hook made from effects of one commit. Every call there is
\* made through a track created while isInitialized was true.
EffectCalls(by, input, calls) ==
  [by |-> by, input |-> input, window |-> window, ready |-> TRUE, calls |-> calls]

\* One render of a component that calls usePerformanceTracking(componentName,
\* options) and the effects of its commit: performance.now() reads now + 1
\* during the render and now + 2 in the effects.
usePerformanceTracking(componentName, o) ==
  LET ready == rendered'.isInitialized
      start == hook.now + 1
      commit == hook.now + 2
      \* lines 269-277
      renderStartTime ==
        IF o.trackRenderTime /\ o.enabled /\ ready /\ isBrowser
        THEN start ELSE hook.renderStartTime
      \* lines 280-326
      deps == <<componentName, CallbackIdentity, o.trackMounts, o.trackUnmounts,
                o.trackRenderTime, o.enabled, ready>>
      runs == deps # hook.deps
      cleanupCalls == IF runs THEN Cleanup(hook.cleanup, hook.mountTime, commit)
                      ELSE <<>>
      mounts == runs /\ o.enabled /\ ready /\ isBrowser
      mountTime == IF mounts THEN commit ELSE hook.mountTime
      mountCalls ==
        IF mounts
        THEN (IF o.trackMounts
              THEN <<[fn |-> "track",
                      args |-> <<"component_mounted",
                                 [component_name |-> componentName,
                                  mount_time |-> mountTime]>>]>>
              ELSE <<>>)
             \o (IF o.trackRenderTime /\ renderStartTime > 0
                 THEN <<[fn |-> "track",
                         args |-> <<"component_render_time",
                                    [component_name |-> componentName,
                                     render_time_ms |-> mountTime - renderStartTime,
                                     render_type |-> "mount"]>>]>>
                 ELSE <<>>)
        ELSE <<>>
      cleanup == IF ~runs THEN hook.cleanup
                 ELSE IF mounts
                      THEN [set |-> TRUE, trackUnmounts |-> o.trackUnmounts,
                            componentName |-> componentName]
                      ELSE NoCleanup
      \* lines 329-341, an effect without dependencies
      updateCalls ==
        IF /\ o.enabled /\ ready /\ o.trackRenderTime /\ isBrowser
           /\ mountTime # 0
           /\ renderStartTime > 0
        THEN <<[fn |-> "track",
                args |-> <<"component_render_time",
                           [component_name |-> componentName,
                            render_time_ms |-> commit - renderStartTime,
                            render_type |-> "update"]>>]>>
        ELSE <<>>
      calls == cleanupCalls \o mountCalls \o updateCalls
  IN /\ hook.kind = "usePerformanceTracking"
     /\ hook.mounted
     /\ hook.renders < MaxRenders
     /\ hook' = [hook EXCEPT !.componentName = componentName, !.options = o,
                             !.deps = deps, !.renderStartTime = renderStartTime,
                             !.mountTime = mountTime, !.cleanup = cleanup,
                             !.now = commit, !.renders = hook.renders + 1]
     /\ IF calls # <<>>
        THEN /\ Len(hookLog) < MaxHookCalls
             /\ hookLog' = Append(hookLog,
                  EffectCalls("usePerformanceTracking", <<componentName, o>>, calls))
        ELSE hookLog' = hookLog
     /\ window' = window

\* The component unmounts: React runs the cleanup of the mount effect.
PerformanceUnmount ==
  LET now == hook.now + 1
      calls == Cleanup(hook.cleanup, hook.mountTime, now)
  IN /\ hook.kind = "usePerformanceTracking"
     /\ hook.mounted
     /\ hook' = [hook EXCEPT !.mounted = FALSE, !.cleanup = NoCleanup, !.now = now]
     /\ IF calls # <<>>
        THEN /\ Len(hookLog) < MaxHookCalls
             /\ hookLog' = Append(hookLog,
                  EffectCalls("usePerformanceTracking",
                              <<hook.componentName, hook.options>>, calls))
        ELSE hookLog' = hookLog
     /\ window' = window

\* The component has mounted together with the provider: its first commit
\* ran while isInitialized was false, so both effects returned at once.
InitPerformance ==
  /\ HookProviderInit
  /\ window \in Windows \cup {NoWindow}
  /\ \E componentName \in ComponentNames, o \in PerformanceOptions :
       hook = [kind |-> "usePerformanceTracking", componentName |-> componentName,
               options |-> o, mounted |-> TRUE,
               deps |-> <<componentName, <<FALSE, props.onError>>, o.trackMounts,
                          o.trackUnmounts, o.trackRenderTime, o.enabled, FALSE>>,
               renderStartTime |-> 0, mountTime |-> 0, cleanup |-> NoCleanup,
               now |-> 2, renders |-> 1]
  /\ hookLog = <<>>

NextPerformance ==
  \/ \E f \in OpsOnErrorFns :
       /\ hook.kind = "usePerformanceTracking"
       /\ ParentRender([props EXCEPT !.onError = f])
       /\ usePerformanceTracking(hook.componentName, hook.options)
  \/ /\ hook.kind = "usePerformanceTracking"
     /\ StateRender
     /\ usePerformanceTracking(hook.componentName, hook.options)
  \/ /\ hook.kind = "usePerformanceTracking"
     /\ UNCHANGED providerVars
     /\ usePerformanceTracking(hook.componentName, hook.options)
  \/ \E r \in inflight : InitResolved(r, FALSE) /\ UNCHANGED hookVars
  \/ \E r \in inflight, cause \in OpsInitCauses :
       InitRejected(r, cause) /\ UNCHANGED hookVars
  \/ PerformanceUnmount /\ UNCHANGED providerVars

PerformanceSpec == InitPerformance /\ [][NextPerformance]_vars

-----------------------------------------------------------------------------
(* The remaining effect-driven hooks (usePageView, useTrackEvent,          *)
(* useFeatureFlagTracking) and the failure handler that every              *)
(* effect-driven hook attaches to the promise it is given                  *)

\* The track calls one commit of a hook can make (usePerformanceTracking:
\* component_mounted and two component_render_time).
MaxCommitCalls == 3

FlagNames == {"beta"}
FlagValues == {[type |-> "boolean", text |-> "true"], [type |-> "string", text |-> "on"]}
DefaultPropertyVals == {EmptyObject, [plan |-> "pro"]}
AdditionalPropertyVals == {EmptyObject, [plan |-> "free"]}

\* usePageView(pageName, properties = {}, dependencies = []), lines 181-193:
\* one render and the run of its effect, deps [isInitialized, pageName]
usePageView(pageName, properties) ==
  LET deps == <<rendered'.isInitialized, pageName>>
      tracks == deps # hook.deps /\ rendered'.isInitialized
  IN /\ hook.kind = "usePageView"
     /\ hook' = [kind |-> "usePageView", pageName |-> pageName,
                 properties |-> properties, deps |-> deps]
     /\ IF tracks
        THEN /\ Len(hookLog) < MaxHookCalls
             /\ hookLog' = Append(hookLog,
                  HookCall("usePageView", <<pageName, properties>>,
                    <<[fn |-> "trackPageView", args |-> <<pageName, properties>>]>>))
        ELSE hookLog' = hookLog
     /\ window' = window

\* useTrackEvent(eventName, defaultProperties = {}), lines 225-238: a render
\* only builds the function it returns.
useTrackEvent(eventName, defaultProperties) ==
  /\ hook.kind = "useTrackEvent"
  /\ hook' = [kind |-> "useTrackEvent", eventName |-> eventName,
              defaultProperties |-> defaultProperties]
  /\ UNCHANGED <<window, hookLog>>

\* The function returned by useTrackEvent, called by the component with
\* additionalProperties (lines 231-235): no isInitialized test.
trackEvent(additionalProperties) ==
  /\ hook.kind = "useTrackEvent"
  /\ Len(hookLog) < MaxHookCalls
  /\ hookLog' = Append(hookLog,
       HookCall("useTrackEvent", <<hook.eventName, additionalProperties>>,
         <<[fn |-> "track",
            args |-> <<hook.eventName,
                       Spread(hook.defaultProperties, additionalProperties)>>]>>))
  /\ UNCHANGED <<hook, window>>

\* useFeatureFlagTracking(flagName, flagValue, metadata = {}), lines 391-408:
\* the default metadata is a new object on every render.
useFeatureFlagTracking(flagName, flagValue) ==
  LET metadata == [id |-> NewId(hook.deps[3]), val |-> EmptyObject]
      deps == <<flagName, flagValue, metadata.id, CallbackIdentity,
                rendered'.isInitialized>>
      tracks == deps # hook.deps /\ rendered'.isInitialized
  IN /\ hook.kind = "useFeatureFlagTracking"
     /\ hook' = [kind |-> "useFeatureFlagTracking", flagName |-> flagName,
                 flagValue |-> flagValue, deps |-> deps]
     /\ IF tracks
        THEN /\ Len(hookLog) < MaxHookCalls
             /\ hookLog' = Append(hookLog,
                  HookCall("useFeatureFlagTracking", <<flagName, flagValue>>,
                    <<[fn |-> "track",
                       args |-> <<"feature_flag_evaluated",
                                  Spread([flag_name |-> flagName,
                                          flag_value |-> flagValue.text,
                                          flag_type |-> flagValue.type],
                                         metadata.val)>>]>>))
        ELSE hookLog' = hookLog
     /\ window' = window

EffectHooks ==
  {"useLoopKit", "usePageView", "useIdentify", "useTrackEvent",
   "usePerformanceTracking", "useRouteTracking", "useFeatureFlagTracking"}

\* Every effect-driven hook but useTrackEvent left without a handler.
HandlerNotOnTrackEvent(by) ==
  IF by \in EffectHooks \ {"useTrackEvent"} THEN "console.error" ELSE "none"

\* What the hook chains to the promise it gets from the bundle:
\* .catch(console.error) at lines 45, 190, 211, 234, 291, 301, 315, 339, 377
\* and 406; the manual helpers hand the promise to their caller.
Handler(by) ==
  IF by \in EffectHooks THEN "console.error" ELSE "none"

EffectSettled(i, k) ==
  \E e \in 1..Len(events) :
    Len(events[e].src) = 3 /\ events[e].src = <<"effect", i, k>>

EffectPending(i, k) ==
  /\ i \in 1..Len(hookLog)
  /\ k \in 1..Len(hookLog[i].calls)
  /\ ~EffectSettled(i, k)

\* The error with which the bundle's function rejects: the isInitialized
\* guard for a call made while not initialized, else the wrapped cause.
EffectRejection(i, k, cause) ==
  IF hookLog[i].ready
  THEN LoopKitTrackingError(
         FailureMessage("track", <<hookLog[i].calls[k].args[1]>>), ToError(cause))
  ELSE LoopKitTrackingError(NotInitializedMessage, Undefined)

\* The promise of call k of hookLog[i] fulfils: nothing is chained to that.
EffectCallFulfilled(i, k) ==
  /\ EffectPending(i, k)
  /\ hookLog[i].ready
  /\ events' = Append(events,
       Invoke("fulfilled", "none", <<"effect", i, k>>, NoError, FALSE))
  /\ UNCHANGED <<props, rendered, isInitialized, isLoading, error, currentConfig,
                 dirty, inflight, initDone, ops, sdkLog>>

\* The promise of call k of hookLog[i] rejects: the handler the hook chained
\* to it runs, or the rejection is unhandled.
EffectCallRejected(i, k, cause) ==
  LET h == Handler(hookLog[i].by)
  IN /\ EffectPending(i, k)
     /\ events' = Append(events,
          Invoke(IF h = "none" THEN "unhandledrejection" ELSE h,
                 IF h = "none" THEN "window" ELSE "console",
                 <<"effect", i, k>>, EffectRejection(i, k, cause), FALSE))
     /\ UNCHANGED <<props, rendered, isInitialized, isLoading, error, currentConfig,
                    dirty, inflight, initDone, ops, sdkLog>>

\* The component that called the hook is gone.
Unmounted ==
  \/ hook.kind = "unmounted"
  \/ hook.kind = "usePerformanceTracking" /\ ~hook.mounted

\* A component using a hook whose effects have no cleanup unmounts.
Unmount ==
  /\ hook.kind \in EffectHooks \ {"usePerformanceTracking"}
  /\ hook' = [kind |-> "unmounted"]
  /\ UNCHANGED <<window, hookLog>>

\* The component renders again with the arguments it passed before.
HookRender ==
  \/ /\ hook.kind = "useLoopKit"
     /\ \E o \in SameOptions : useLoopKit(o)
  \/ /\ hook.kind = "useIdentify"
     /\ \E p \in SameOrFresh(hook.userProperties, hook.deps[2]) :
          useIdentify(hook.userId, p)
  \/ /\ hook.kind = "useRouteTracking"
     /\ \E a \in SameOrFresh(hook.routeParams, hook.deps[2]) :
          useRouteTracking(hook.routeName, a)
  \/ /\ hook.kind = "usePerformanceTracking"
     /\ usePerformanceTracking(hook.componentName, hook.options)
  \/ /\ hook.kind = "usePageView"
     /\ usePageView(hook.pageName, hook.properties)
  \/ /\ hook.kind = "useTrackEvent"
     /\ useTrackEvent(hook.eventName, hook.defaultProperties)
  \/ /\ hook.kind = "useFeatureFlagTracking"
     /\ useFeatureFlagTracking(hook.flagName, hook.flagValue)

\* A component using one of the effect-driven hooks has mounted together
\* with the provider: its effects ran while isInitialized was false.
InitEffects ==
  /\ HookProviderInit
  /\ window \in Windows \cup {NoWindow}
  /\ hookLog = <<>>
  /\ \/ hook = [kind |-> "useLoopKit", userId |-> "u1", userProperties |-> NoObject,
                autoIdentify |-> TRUE,
                deps |-> <<TRUE, "u1", NoObject.id, FALSE, <<FALSE, props.onError>>>>]
     \/ hook = [kind |-> "useIdentify", userId |-> "u1", userProperties |-> NoObject,
                deps |-> <<"u1", NoObject.id, FALSE, <<FALSE, props.onError>>>>]
     \/ hook = [kind |-> "useRouteTracking", routeName |-> "home",
                routeParams |-> NoObject,
                deps |-> <<"home", 0, <<FALSE, props.onError>>, FALSE>>,
                previousRoute |-> ""]
     \/ hook = [kind |-> "usePerformanceTracking", componentName |-> "Widget",
                options |-> DefaultPerformanceOptions, mounted |-> TRUE,
                deps |-> <<"Widget", <<FALSE, props.onError>>, TRUE, TRUE, TRUE,
                           TRUE, FALSE>>,
                renderStartTime |-> 0, mountTime |-> 0, cleanup |-> NoCleanup,
                now |-> 2, renders |-> 1]
     \/ \E p \in PageProperties :
          hook = [kind |-> "usePageView", pageName |-> "Home", properties |-> p,
                  deps |-> <<FALSE, "Home">>]
     \/ \E n \in EventNames, d \in DefaultPropertyVals :
          hook = [kind |-> "useTrackEvent", eventName |-> n,
                  defaultProperties |-> d]
     \/ \E n \in FlagNames, v \in FlagValues :
          hook = [kind |-> "useFeatureFlagTracking", flagName |-> n,
                  flagValue |-> v,
                  deps |-> <<n, v, 0, <<FALSE, props.onError>>, FALSE>>]

NextEffects ==
  \/ StateRender /\ HookRender
  \/ Unmounted /\ StateRender /\ UNCHANGED hookVars
  \/ \E r \in inflight : InitResolved(r, FALSE) /\ UNCHANGED hookVars
  \/ \E r \in inflight, cause \in OpsInitCauses :
       InitRejected(r, cause) /\ UNCHANGED hookVars
  \/ \E a \in AdditionalPropertyVals : UNCHANGED providerVars /\ trackEvent(a)
  \/ UNCHANGED providerVars /\ Unmount
  \/ PerformanceUnmount /\ UNCHANGED providerVars
  \/ \E i \in 1..MaxHookCalls, k \in 1..MaxCommitCalls :
       EffectCallFulfilled(i, k) /\ UNCHANGED hookVars
  \/ \E i \in 1..MaxHookCalls, k \in 1..MaxCommitCalls, cause \in OpsInitCauses :
       EffectCallRejected(i, k, cause) /\ UNCHANGED hookVars

EffectSpec == InitEffects /\ [][NextEffects]_vars

-----------------------------------------------------------------------------
(* The navigation-tracking effect of LoopKitProvider (src/src/context.tsx, *)
(* lines 85-138), deps [isInitialized, config.enableAutoCapture]           *)

MaxTimers == 2

NavConfigVals == {EmptyConfig, [enableAutoCapture |-> FALSE]}

\* config.enableAutoCapture !== false, line 89
shouldTrackNavigation(cfg) ==
  IF "enableAutoCapture" \in DOMAIN cfg THEN cfg.enableAutoCapture # FALSE ELSE TRUE

\* The LoopKit.track call of trackPageView, lines 99-105, with the committed
\* lifecycle state and config at the time it is made.
AutoPageView(ready, cfg) ==
  [by |-> "LoopKitProvider", input |-> <<shouldTrackNavigation(cfg)>>,
   window |-> window, ready |-> ready,
   calls |-> <<[fn |-> "track",
                args |-> <<"page_view",
                           [page |-> window.pathname, title |-> window.title,
                            url |-> window.href, referrer |-> window.referrer,
                            source |-> "react_navigation"]>>]>>]

\* The effect of one commit of the provider: cleanup of the previous run
\* when a dependency changed, then lines 86-137.
NavigationEffect ==
  LET ready == rendered'.isInitialized
      auto == shouldTrackNavigation(rendered'.config.val)
      deps == <<ready, auto>>
      runs == deps # hook.deps
      patches == runs /\ ready /\ auto
      emits == patches /\ window.pathname # hook.previousPath
  IN /\ hook.kind = "navigation"
     /\ hook.mounted
     /\ hook' = [hook EXCEPT !.deps = deps,
                             !.patched = IF runs THEN patches ELSE hook.patched,
                             !.previousPath = IF emits THEN window.pathname
                                              ELSE hook.previousPath]
     /\ IF emits
        THEN /\ Len(hookLog) < MaxHookCalls
             /\ hookLog' = Append(hookLog, AutoPageView(ready, rendered'.config.val))
        ELSE hookLog' = hookLog
     /\ window' = window

\* The application calls window.history.pushState or replaceState, moving
\* to the location w: the provider's wrapper, if installed, calls the
\* original and then setTimeout(trackPageView, 0) (lines 113-130).
HistoryCall(w) ==
  /\ hook.kind = "navigation"
  /\ window' = w
  /\ IF hook.patched
     THEN /\ hook.timers < MaxTimers
          /\ hook' = [hook EXCEPT !.timers = hook.timers + 1]
     ELSE hook' = hook
  /\ hookLog' = hookLog

\* A timer set by handleLocationChange fires: trackPageView, lines 92-107.
\* Nothing clears the timer when the effect is cleaned up.
NavigationTimer ==
  LET emits == window.pathname # hook.previousPath
  IN /\ hook.kind = "navigation"
     /\ hook.timers > 0
     /\ hook' = [hook EXCEPT !.timers = hook.timers - 1,
                             !.previousPath = IF emits THEN window.pathname
                                              ELSE hook.previousPath]
     /\ IF emits
        THEN /\ Len(hookLog) < MaxHookCalls
             /\ hookLog' = Append(hookLog,
                  AutoPageView(rendered.isInitialized, rendered.config.val))
        ELSE hookLog' = hookLog
     /\ window' = window

\* The provider unmounts: the cleanup of the effect, lines 133-136.
ProviderUnmount ==
  /\ hook.kind = "navigation"
  /\ hook.mounted
  /\ hook' = [hook EXCEPT !.mounted = FALSE, !.patched = FALSE]
  /\ UNCHANGED <<window, hookLog>>

\* The provider has mounted in a browser: its first commit ran the effect
\* while isInitialized was false.
InitNavigation ==
  /\ ProviderInit
  /\ props.config # Omitted
  /\ props.config.val = EmptyConfig
  /\ props.onInitialized = None
  /\ props.onError = None
  /\ window \in Windows
  /\ hook = [kind |-> "navigation", mounted |-> TRUE, deps |-> <<FALSE, TRUE>>,
             patched |-> FALSE, previousPath |-> "", timers |-> 0]
  /\ hookLog = <<>>

NextNavigation ==
  \/ \E v \in NavConfigVals :
       /\ ParentRender([props EXCEPT !.config = [id |-> FreshId, val |-> v]])
       /\ NavigationEffect
  \/ StateRender /\ NavigationEffect
  \/ \E r \in inflight : InitResolved(r, FALSE) /\ UNCHANGED hookVars
  \/ \E r \in inflight, cause \in OpsInitCauses :
       InitRejected(r, cause) /\ UNCHANGED hookVars
  \/ \E w \in Windows : HistoryCall(w) /\ UNCHANGED providerVars
  \/ \E w \in Windows : Navigate(w) /\ UNCHANGED providerVars
  \/ NavigationTimer /\ UNCHANGED providerVars
  \/ ProviderUnmount /\ UNCHANGED providerVars

NavigationSpec == InitNavigation /\ [][NextNavigation]_vars

-----------------------------------------------------------------------------
(* Several LoopKitProvider instances patching window.history (context.tsx, *)
(* lines 119-137). A function is 0, the browser's own, or the index in     *)
(* hook.wrappers of a wrapper created by one run of the effect.            *)

MaxProviders == 2
MaxPatches == 3

Providers == 1..MaxProviders
HistoryFns == {"pushState", "replaceState"}
NativeHistory == [pushState |-> 0, replaceState |-> 0]

\* The providers whose handleLocationChange runs when function f of the
\* history API is called: a wrapper calls the original it captured, then
\* its own handler (lines 122-130).
RECURSIVE Handlers(_, _)
Handlers(fn, f) ==
  IF f = 0 THEN {}
  ELSE {hook.wrappers[f].provider} \cup Handlers(fn, hook.wrappers[f].original[fn])

\* The effect of provider p runs while p is initialized with auto-capture
\* on: it captures the current functions and installs its wrappers
\* (lines 119-130).
PatchHistory(p) ==
  LET w == Len(hook.wrappers) + 1
  IN /\ hook.kind = "history"
     /\ hook.installed[p] = 0
     /\ Len(hook.wrappers) < MaxPatches
     /\ hook' = [hook EXCEPT
                   !.wrappers = Append(hook.wrappers,
                                       [provider |-> p, original |-> hook.history]),
                   !.history = [pushState |-> w, replaceState |-> w],
                   !.installed[p] = w]
     /\ UNCHANGED <<window, hookLog>>

\* The cleanup of the effect of provider p, on unmount or before a re-run:
\* it assigns back the functions the run captured (lines 133-136).
RestoreHistory(p) ==
  LET w == hook.installed[p]
  IN /\ hook.kind = "history"
     /\ w # 0
     /\ hook' = [hook EXCEPT !.history = hook.wrappers[w].original,
                             !.installed[p] = 0]
     /\ UNCHANGED <<window, hookLog>>

\* The application calls window.history[fn]: lastCall keeps the providers
\* that had wrappers installed and those whose handler ran.
CallHistory(fn) ==
  /\ hook.kind = "history"
  /\ hook' = [hook EXCEPT
                !.lastCall = [fn |-> fn,
                              installed |-> {p \in Providers : hook.installed[p] # 0},
                              handled |-> Handlers(fn, hook.history[fn])]]
  /\ UNCHANGED <<window, hookLog>>

InitHistory ==
  /\ HookProviderInit
  /\ props.onError = None
  /\ window \in Windows
  /\ hookLog = <<>>
  /\ hook = [kind |-> "history", history |-> NativeHistory, wrappers |-> <<>>,
             installed |-> [p \in Providers |-> 0],
             lastCall |-> [fn |-> "none", installed |-> {}, handled |-> {}]]

NextHistory ==
  \/ \E p \in Providers : PatchHistory(p) /\ UNCHANGED providerVars
  \/ \E p \in Providers : RestoreHistory(p) /\ UNCHANGED providerVars
  \/ \E fn \in HistoryFns : CallHistory(fn) /\ UNCHANGED providerVars

HistorySpec == InitHistory /\ [][NextHistory]_vars

-----------------------------------------------------------------------------
(* Properties of the hooks                                                 *)

NewHookCalls == {i \in 1..Len(hookLog') : i > Len(hookLog)}
RouteOf(e) == e.calls[1].args[2].route
LastRoute == IF hookLog = <<>> THEN "" ELSE RouteOf(hookLog[Len(hookLog)])

\* C17: useRouteTracking tracks route_change only when its effect runs while
\* ready (in a browser) and the current route (routeName, else the current
\* path) differs from the route of the last route_change: an equal route
\* gives no event and a changed route exactly one, whatever made the effect
\* run again.
C17_RouteChangeOncePerChange ==
  [][LET ran == hook'.deps # hook.deps /\ rendered'.isInitialized /\ isBrowser
         currentRoute == OrElse(hook'.routeName, window.pathname)
     IN /\ \A i \in 1..Len(hookLog) : hookLog'[i] = hookLog[i]
        /\ IF ran /\ currentRoute # LastRoute
           THEN /\ Cardinality(NewHookCalls) = 1
                /\ \A i \in NewHookCalls :
                     /\ Len(hookLog'[i].calls) = 1
                     /\ hookLog'[i].calls[1].fn = "track"
                     /\ hookLog'[i].calls[1].args[1] = "route_change"
                     /\ RouteOf(hookLog'[i]) = currentRoute
           ELSE hookLog' = hookLog]_vars

\* With the default routeParams (the effect runs on every render), /a and
\* then /b have been tracked, and /b is the last route observed.
C17_Witness ==
  /\ hook.kind = "useRouteTracking"
  /\ hook.routeParams = NoObject
  /\ Len(hookLog) = 2
  /\ RouteOf(hookLog[1]) = "/a"
  /\ RouteOf(hookLog[2]) = "/b"
  /\ hook.previousRoute = "/b"

IdentifiedUser(e) == e.calls[1].args[1]
AutoIdentifies(h) == h.kind = "useLoopKit" => h.autoIdentify

\* C18: with autoIdentify = true and a userId, once ready identify is called
\* once per userId: while the provider stays ready, a re-render of useLoopKit
\* with the userId it has just identified (whatever userProperties object
\* or provider onError it comes with) calls identify no further time.
C18_IdentifyOncePerUserId ==
  [][(/\ hook.kind = "useLoopKit"
      /\ hook.autoIdentify /\ hook'.autoIdentify
      /\ rendered.isInitialized /\ rendered'.isInitialized
      /\ hook'.userId = hook.userId
      /\ hookLog # <<>>
      /\ IdentifiedUser(hookLog[Len(hookLog)]) = hook.userId)
       => hookLog' = hookLog]_vars

\* C19: the auto-identifying hooks call identify only while ready, only with
\* a non-empty userId and (useLoopKit) only with autoIdentify set, and they
\* call it once, with the new id, when the userId changes while ready.
C19_IdentifyOnlyWhenReady ==
  [][/\ \A i \in 1..Len(hookLog) : hookLog'[i] = hookLog[i]
     /\ \A i \in NewHookCalls :
          /\ hookLog'[i].ready
          /\ Truthy(hook'.userId)
          /\ AutoIdentifies(hook')
          /\ hookLog'[i].calls =
               <<[fn |-> "identify",
                  args |-> <<hook'.userId, hook'.userProperties.val>>]>>
     /\ (/\ hook'.userId # hook.userId
         /\ Truthy(hook'.userId)
         /\ rendered'.isInitialized
         /\ AutoIdentifies(hook'))
          => Cardinality(NewHookCalls) = 1]_vars

\* While ready, useIdentify has identified u1 and, the userId having
\* changed, u2.
C19_Witness ==
  /\ hook.kind = "useIdentify"
  /\ rendered.isInitialized
  /\ Len(hookLog) = 2
  /\ IdentifiedUser(hookLog[1]) = "u1"
  /\ IdentifiedUser(hookLog[2]) = "u2"
  /\ hook.userId = "u2"

PageViewDefaults == {"page", "url", "title", "referrer", "source"}

\* C20: trackPageView(pageName, properties) called while ready in a browser
\* calls track once, with 'page_view' and the caller's properties over the
\* defaults page (the pageName if one is given and non-empty, else the
\* current path), url, title, referrer of the window at call time and
\* source 'react_manual'; outside a browser it calls nothing.
C20_PageViewProperties ==
  \A i \in 1..Len(hookLog) :
    hookLog[i].by = "trackPageView" =>
      LET e == hookLog[i]
          given == IF e.input[2] = NoProperties THEN EmptyObject ELSE e.input[2]
      IN IF e.window = NoWindow
         THEN e.calls = <<>>
         ELSE e.ready =>
                /\ Len(e.calls) = 1
                /\ e.calls[1].fn = "track"
                /\ e.calls[1].args[1] = "page_view"
                /\ LET p == e.calls[1].args[2]
                       default == [page |-> IF Truthy(e.input[1]) THEN e.input[1]
                                            ELSE e.window.pathname,
                                   url |-> e.window.href,
                                   title |-> e.window.title,
                                   referrer |-> e.window.referrer,
                                   source |-> "react_manual"]
                   IN /\ DOMAIN p = PageViewDefaults \cup DOMAIN given
                      /\ \A k \in DOMAIN given : p[k] = given[k]
                      /\ \A k \in PageViewDefaults \ DOMAIN given : p[k] = default[k]
                /\ \E j \in 1..Len(sdkLog) :
                     /\ sdkLog[j].fn = "track"
                     /\ sdkLog[j].args = <<"page_view", e.calls[1].args[2], "undefined">>

\* trackPageView was called while ready in a browser with a page name and
\* with properties that replace the default page.
C20_Witness ==
  \E i \in 1..Len(hookLog) :
    /\ hookLog[i].by = "trackPageView"
    /\ hookLog[i].window # NoWindow
    /\ hookLog[i].ready
    /\ hookLog[i].input = <<"Home", [page |-> "custom", plan |-> "pro"]>>
    /\ hookLog[i].calls # <<>>

MakesCall(e) == e.calls # <<>>
CallingEntries == SelectSeq(hookLog, MakesCall)

\* The call of the bundle that the claim names for a helper call: the same
\* call made directly.
DirectCall(e) ==
  LET given == IF e.input[2] = NoProperties THEN EmptyObject ELSE e.input[2]
  IN CASE e.by = "trackClick" ->
            [op |-> "track",
             args |-> <<"click",
                        [k \in {"element", "page", "source"} \cup DOMAIN given |->
                           IF k \in DOMAIN given THEN given[k]
                           ELSE IF k = "element" THEN e.input[1]
                           ELSE IF k = "page" THEN e.window.pathname
                           ELSE "react_manual"],
                        "undefined">>]
       [] e.by = "trackFormSubmit" ->
            [op |-> "track",
             args |-> <<"form_submit",
                        [k \in {"form", "page"} \cup DOMAIN given |->
                           IF k \in DOMAIN given THEN given[k]
                           ELSE IF k = "form" THEN e.input[1]
                           ELSE e.window.pathname],
                        "undefined">>]
       [] e.by = "setUserId" -> [op |-> "identify", args |-> e.input]
       [] e.by = "setGroup" -> [op |-> "group", args |-> e.input]

AdditiveHelpers == {"trackClick", "trackFormSubmit", "setUserId", "setGroup"}

\* C21: in every lifecycle state, trackClick, trackFormSubmit, setUserId and
\* setGroup (in a browser) each make exactly the call of the bundle that the
\* caller could have made directly - track('click', {element, page, source:
\* 'react_manual', ...p}), track('form_submit', {form, page, ...p}),
\* identify(u, p), group(g, p, t) - and nothing else, so the external call
\* (or its absence) and the caller's outcome are those of that call.
C21_HelpersAdditive ==
  /\ Len(ops) = Len(CallingEntries)
  /\ \A i \in 1..Len(hookLog) :
       (hookLog[i].by \in AdditiveHelpers /\ hookLog[i].window # NoWindow) =>
         Len(hookLog[i].calls) = 1
  /\ \A k \in 1..Len(CallingEntries) :
       LET e == CallingEntries[k]
       IN e.by \in AdditiveHelpers =>
            /\ ops[k].op = DirectCall(e).op
            /\ ops[k].args = DirectCall(e).args
            /\ ops[k].ready = e.ready
            /\ (SdkCallsOf(k) # {}) = e.ready

\* trackClick was called with overriding properties while the provider was
\* ready, and the external track failed.
C21_Witness ==
  /\ Len(CallingEntries) = 1
  /\ CallingEntries[1].by = "trackClick"
  /\ CallingEntries[1].input[2] # NoProperties
  /\ CallingEntries[1].ready
  /\ ops[1].outcome = "failed"

\* The index in ops of the bundle call made by the helper call hookLog[i].
OpOf(i) == Cardinality({j \in 1..i : MakesCall(hookLog[j])})

HookResults(i) ==
  {j \in 1..Len(events) :
     events[j].ev = "result" /\ events[j].src = <<"hook", i>>}

\* C24: setUserProperties(properties) of a useLoopKit instance without a
\* userId (undefined or empty) rejects with the Error 'User ID must be set
\* before setting user properties' and calls no identify; with a userId it
\* calls identify(userId, properties), once.
C24_SetUserPropertiesNeedsUserId ==
  \A i \in 1..Len(hookLog) :
    hookLog[i].by = "setUserProperties" =>
      LET e == hookLog[i]
      IN IF Truthy(e.input[1])
         THEN /\ e.calls = <<[fn |-> "identify", args |-> e.input]>>
              /\ HookResults(i) = {}
              /\ ops[OpOf(i)].op = "identify"
              /\ ops[OpOf(i)].args = e.input
         ELSE /\ e.calls = <<>>
              /\ Len(ops) = Len(CallingEntries)
              /\ Cardinality(HookResults(i)) = 1
              /\ \A j \in HookResults(i) : events[j].err = UserIdRequired

\* setUserProperties was called on an instance without a userId option.
C24_Witness ==
  \E i \in 1..Len(hookLog) :
    /\ hookLog[i].by = "setUserProperties"
    /\ hookLog[i].input[1] = None
    /\ HookResults(i) # {}

BoundaryTracks ==
  {i \in 1..Len(sdkLog) : sdkLog[i].fn = "track" /\ sdkLog[i].id = 0}

\* C22: when a child of LoopKitErrorBoundary has thrown E, the boundary
\* shows the fallback (the caller's element or function result, else the
\* default block) instead of the children, and LoopKit.track has been called
\* exactly once with 'react_error_boundary' and error_message = E.message,
\* unless enableTracking is false: then it has not been called.
C22_BoundaryReportsAndFallsBack ==
  [][hook.kind = "LoopKitErrorBoundary" =>
       LET caught == ~hook.state.hasError /\ hook'.state.hasError
           tracked == SubSeq(sdkLog', Len(sdkLog) + 1, Len(sdkLog'))
           reports == SelectSeq(tracked, LAMBDA c : c.fn = "track" /\ c.id = 0)
       IN /\ hook'.output.shows =
               (CASE ~hook'.state.hasError -> "children"
                  [] hook'.props.fallback = "function" -> "fallback(error, errorInfo)"
                  [] hook'.props.fallback = "element" -> "fallback"
                  [] OTHER -> "default")
          /\ IF caught /\ hook.props.enableTracking # "false"
             THEN /\ Len(reports) = 1
                  /\ reports[1].args[1] = "react_error_boundary"
                  /\ reports[1].args[2].error_message = hook'.state.error.text
             ELSE reports = <<>>]_vars

\* A child threw Error('boom2') under a boundary with a fallback function
\* and enableTracking left unset.
C22_Witness ==
  /\ hook.kind = "LoopKitErrorBoundary"
  /\ hook.state.hasError
  /\ hook.state.error.text = "boom2"
  /\ hook.props.fallback = "function"
  /\ hook.props.enableTracking = "undefined"
  /\ BoundaryTracks # {}

\* C23: a failure of the boundary's tracking call, LoopKit.track throwing
\* or rejecting, is caught by the boundary: nothing of it escapes as an
\* unhandled rejection, and the fallback stays on screen.
C23_TrackingFailureAbsorbed ==
  /\ \A i \in 1..Len(events) :
       events[i].src = <<"boundary">> => events[i].ev # "unhandledrejection"
  /\ (hook.kind = "LoopKitErrorBoundary" /\ hook.state.hasError) =>
       hook.output.shows # "children"

\* C25: delegated operations reach the external SDK in the order in which
\* they were called: of two calls made while initialized, whether or not the
\* first has settled, the external call of the earlier one comes first.
C25_CallsReachSdkInOrder ==
  \A i, j \in 1..Len(ops) :
    (i < j /\ ops[i].ready /\ ops[j].ready) =>
      /\ Cardinality(SdkCallsOf(i)) = 1
      /\ Cardinality(SdkCallsOf(j)) = 1
      /\ \A a \in SdkCallsOf(i), b \in SdkCallsOf(j) :
           /\ a < b
           /\ sdkLog[a].fn = ops[i].op
           /\ sdkLog[b].fn = ops[j].op

\* Two operations were called while initialized, the second while the first
\* was still awaited.
C25_Witness ==
  /\ Len(ops) = 2
  /\ ops[1].ready /\ ops[2].ready
  /\ ops[1].outcome = "pending"
  /\ ops[1].op = "track" /\ ops[2].op = "flush"

\* The external calls that took effect: init calls that resolved and
\* configure calls that returned.
TookEffect(j) ==
  \/ sdkLog[j].fn = "init" /\ initDone[sdkLog[j].id].status = "resolved"
  \/ sdkLog[j].fn = "configure" /\ ops[sdkLog[j].id].outcome = "ok"

LastEffectiveInit ==
  CHOOSE j \in 1..Len(sdkLog) :
    /\ sdkLog[j].fn = "init" /\ TookEffect(j)
    /\ \A k \in (j + 1)..Len(sdkLog) : ~(sdkLog[k].fn = "init" /\ TookEffect(k))

RECURSIVE Overlaid(_, _)
Overlaid(cfg, j) ==
  IF j > Len(sdkLog) THEN cfg
  ELSE Overlaid(IF sdkLog[j].fn = "configure" /\ TookEffect(j)
                THEN Spread(cfg, sdkLog[j].args[1]) ELSE cfg,
                j + 1)

EffectiveConfig ==
  Overlaid(sdkLog[LastEffectiveInit].args[2], LastEffectiveInit + 1)

\* C29: whenever the provider is ready and no init is in flight, the cached
\* config (currentConfig) is the config of the last init call that succeeded,
\* overlaid in call order with the options of every configure call made to
\* the SDK after it that succeeded.
C29_CachedConfigIsEffective ==
  (Ready /\ inflight = {}) => currentConfig.val = EffectiveConfig

\* C30: useLoopKitContext called with no enclosing LoopKitProvider throws
\* Error('useLoopKitContext must be used within a LoopKitProvider'); inside
\* providers it returns the bundle of the innermost one.
C30_ContextOfInnermostProvider ==
  (hook.kind = "useLoopKitContext" /\ hook.called) =>
    IF Len(hook.providers) = 0
    THEN /\ hook.result.threw
         /\ hook.result.error.type = "Error"
         /\ hook.result.error.text =
              "useLoopKitContext must be used within a LoopKitProvider"
    ELSE /\ ~hook.result.threw
         /\ hook.result.value = hook.providers[Len(hook.providers)]

\* Called under two nested providers whose bundles differ.
C30_Witness ==
  /\ hook.kind = "useLoopKitContext"
  /\ hook.called
  /\ Len(hook.providers) = 2
  /\ hook.providers[1] # hook.providers[2]
  /\ hook.result.value = hook.providers[2]

\* The track calls a step adds to hookLog, and those of an event name.
NewCalls ==
  IF Len(hookLog') > Len(hookLog) THEN hookLog'[Len(hookLog')].calls ELSE <<>>
Named(calls, name) == SelectSeq(calls, LAMBDA c : c.args[1] = name)
RenderTimes(calls, type) ==
  SelectSeq(Named(calls, "component_render_time"),
            LAMBDA c : c.args[2].render_type = type)

\* C27: with usePerformanceTracking at default options in a browser, the
\* first commit at which isInitialized is true emits one component_mounted
\* and exactly one component_render_time, of render_type 'mount'; a later
\* render while initialized emits exactly one component_render_time of
\* render_type 'update'.
C27_MountThenUpdates ==
  [][(/\ hook.kind = "usePerformanceTracking"
      /\ hook.options = DefaultPerformanceOptions
      /\ isBrowser
      /\ hook'.renders > hook.renders
      /\ rendered'.isInitialized) =>
       IF hook.mountTime = 0
       THEN /\ Len(Named(NewCalls, "component_mounted")) = 1
            /\ Len(Named(NewCalls, "component_render_time")) = 1
            /\ Len(RenderTimes(NewCalls, "mount")) = 1
       ELSE Len(RenderTimes(NewCalls, "update")) = 1]_vars

RECURSIVE CallsOf(_)
CallsOf(log) ==
  IF log = <<>> THEN <<>> ELSE log[1].calls \o CallsOf(Tail(log))

\* C28: once a component using usePerformanceTracking (default options, in
\* a browser) has unmounted: if component_mounted was emitted, exactly one
\* component_unmounted was emitted, at the unmount, with
\* component_lifetime_ms = unmount mark - mount mark of the last
\* component_mounted; otherwise no event was emitted at all.
C28_UnmountedOnceWithLifetime ==
  (/\ hook.kind = "usePerformanceTracking"
   /\ hook.options = DefaultPerformanceOptions
   /\ isBrowser
   /\ ~hook.mounted) =>
     LET calls == CallsOf(hookLog)
         mounted == Named(calls, "component_mounted")
         unmounted == Named(calls, "component_unmounted")
     IN IF mounted = <<>>
        THEN calls = <<>>
        ELSE /\ Len(unmounted) = 1
             /\ unmounted[1].args[2].unmount_time = hook.now
             /\ unmounted[1].args[2].component_lifetime_ms =
                  hook.now - mounted[Len(mounted)].args[2].mount_time

EffectEvents ==
  {e \in 1..Len(events) : Len(events[e].src) = 3 /\ events[e].src[1] = "effect"}

\* C26: a call issued by an effect-driven helper (auto-identify of
\* useLoopKit, usePageView, useIdentify, the function of useTrackEvent,
\* usePerformanceTracking, useRouteTracking, useFeatureFlagTracking) that
\* rejects, whenever it settles and also when the provider was not
\* initialized, is passed to console.error and never becomes an unhandled
\* rejection.
C26_EffectRejectionsHandled ==
  \A e \in EffectEvents :
    /\ hookLog[events[e].src[2]].by \in EffectHooks
    /\ events[e].ev # "unhandledrejection"
    /\ events[e].err # NoError => events[e].ev = "console.error"

\* A call of the useTrackEvent function made before initialization was
\* rejected after the component had unmounted.
C26_Witness ==
  /\ hook.kind = "unmounted"
  /\ \E e \in EffectEvents :
       /\ events[e].ev = "console.error"
       /\ hookLog[events[e].src[2]].by = "useTrackEvent"
       /\ ~hookLog[events[e].src[2]].ready
       /\ events[e].err.message = NotInitializedMessage

C32_ThrowingOnInitializedIsInitFailure ==
  [][\A r \in inflight \ inflight' :
       initDone'[r.id].status = "resolved-threw" =>
         LET new == SubSeq(events', Len(events) + 1, Len(events'))
         IN /\ ~isInitialized'
            /\ ~isLoading'
            /\ error'.name = "LoopKitInitializationError"
            /\ error'.originalError = CallbackThrown
            /\ new[1].ev = "onInitialized"
            /\ IF r.onError = None
               THEN Len(new) = 1
               ELSE /\ Len(new) = 2
                    /\ new[2].ev = "onError"
                    /\ new[2].fn = r.onError
                    /\ new[2].err = error']_vars

\* The first run's init succeeded, its onInitialized threw and its onError
\* was called.
C32_Witness ==
  /\ initDone[1].status = "resolved-threw"
  /\ ~isInitialized /\ ~isLoading
  /\ error.originalError = CallbackThrown
  /\ \E i \in EventsOf("onError", <<"init", 1>>) : events[i].err = error
  /\ \E j \in 1..Len(sdkLog) : sdkLog[j].fn = "init" /\ sdkLog[j].id = 1

\* C33: a configure call that fails, because the provider is not initialized
\* or because LoopKit.configure throws, leaves the cached config and the
\* lifecycle state (isInitialized, isLoading, error) as they were; a
\* configure call whose external call returns sets the cached config to the
\* previous one overlaid with the options and leaves the lifecycle state as
\* it was.
C33_ConfigureFrame ==
  [][(Len(ops') > Len(ops) /\ ops'[Len(ops')].op = "configure") =>
       /\ <<isInitialized', isLoading', error', inflight'>>
            = <<isInitialized, isLoading, error, inflight>>
       /\ IF ops'[Len(ops')].outcome = "ok"
          THEN currentConfig'.val =
                 Spread(currentConfig.val, ops'[Len(ops')].args[1])
          ELSE currentConfig' = currentConfig]_vars

\* One configure was rejected as not initialized, a later one threw in the
\* SDK, and the cached config is still the one of the init.
C33_Witness ==
  /\ Len(ops) = 2
  /\ ops[1].outcome = "not-initialized"
  /\ ops[2].outcome = "failed"
  /\ isInitialized
  /\ currentConfig.val = EmptyConfig

AutoPageViews == SelectSeq(hookLog, LAMBDA e : e.by = "LoopKitProvider")

\* The dedup of the automatic page views: no two consecutive ones carry the
\* same page.
NoRepeatedAutoPageView ==
  \A i \in 1..(Len(AutoPageViews) - 1) :
    AutoPageViews[i].calls[1].args[2].page # AutoPageViews[i + 1].calls[1].args[2].page

\* C34: the provider's automatic navigation tracking emits a page_view
\* (source 'react_navigation') only while it is initialized and
\* enableAutoCapture is not false, no two consecutive automatic page_view
\* events carry the same page, and while enableAutoCapture is false the
\* history functions are not patched.
C34_AutoPageViewOnlyWhenReadyAndChanged ==
  /\ \A i \in 1..Len(AutoPageViews) :
       AutoPageViews[i].ready /\ AutoPageViews[i].input[1]
  /\ NoRepeatedAutoPageView
  /\ (hook.kind = "navigation" /\ ~hook.deps[2]) => ~hook.patched

\* C35: with several providers mounted and unmounted in any order, once
\* every provider that patched window.history has run its cleanup
\* pushState and replaceState are the browser's own again, and a
\* pushState/replaceState call runs the page-view check of every provider
\* that is mounted, ready and has its wrappers installed.
C35_HistoryRestoredAndShared ==
  hook.kind = "history" =>
    /\ (\A p \in Providers : hook.installed[p] = 0) => hook.history = NativeHistory
    /\ hook.lastCall.installed \subseteq hook.lastCall.handled

\* C36: an operation rejected because the provider is not initialized
\* does not invoke onError: every onError invocation comes from an
\* initialize run that was rejected or from an operation whose external
\* call failed, and the rejected caller still gets the error.
C36_NotInitializedSkipsOnError ==
  /\ \A e \in 1..Len(events) :
       events[e].ev = "onError" =>
         \/ /\ events[e].src[1] = "init"
            /\ initDone[events[e].src[2]].status = "rejected"
         \/ /\ events[e].src[1] = "op"
            /\ ops[events[e].src[2]].outcome = "failed"
  /\ \A i \in 1..Len(ops) :
       ops[i].outcome = "not-initialized" =>
         /\ EventsOf("onError", <<"op", i>>) = {}
         /\ \E e \in EventsOf("result", <<"op", i>>) :
              events[e].err = LoopKitTrackingError(NotInitializedMessage, Undefined)

C36_Witness ==
  \E i \in 1..Len(ops) :
    /\ ops[i].outcome = "not-initialized"
    /\ ops[i].onError # None
    /\ \E r \in DOMAIN initDone : EventsOf("onError", <<"init", r>>) # {}

\* C37: LoopKitErrorBoundary reports a caught rendering fault by calling
\* LoopKit.track itself, whatever the state of a provider: the
\* 'react_error_boundary' call is made with no provider mounted, while
\* initialization is in flight and after it has failed; no operation of the
\* context is called, no LoopKitTrackingError is built and the provider's
\* onError is not notified.
C37_BoundaryTracksOutsideLifecycle ==
  [][(/\ hook.kind = "LoopKitErrorBoundary"
      /\ ~hook.state.hasError
      /\ hook'.state.hasError
      /\ hook.props.enableTracking # "false") =>
       /\ Len(sdkLog') = Len(sdkLog) + 1
       /\ sdkLog'[Len(sdkLog')].fn = "track"
       /\ sdkLog'[Len(sdkLog')].args[1] = "react_error_boundary"
       /\ ops' = ops
       /\ <<isInitialized', isLoading', error'>> = <<isInitialized, isLoading, error>>
       /\ \A e \in (Len(events) + 1)..Len(events') :
            /\ events'[e].src = <<"boundary">>
            /\ events'[e].ev # "result"
            /\ events'[e].ev = "onError" =>
                 /\ events'[e].fn = hook.props.onError
                 /\ events'[e].err = hook'.state.error]_vars

\* The boundary reported a fault after the initialization of a provider
\* with an onError callback had failed.
C37_Witness ==
  /\ hook.kind = "LoopKitErrorBoundary"
  /\ hook.state.hasError
  /\ BoundaryTracks # {}
  /\ ~isInitialized
  /\ error # NoError
  /\ rendered.onError # None
  /\ \A e \in 1..Len(events) :
       events[e].src = <<"boundary">> => \E i \in 1..(e - 1) : events[i].src = <<"init", 1>>
  /\ \A i \in BoundaryTracks : \E j \in 1..(i - 1) : sdkLog[j].fn = "init"

\* C38: setUserId does not change the user id used by setUserProperties,
\* which is the userId option of the useLoopKit instance: a setUserId call
\* leaves the instance as it was, and a setUserProperties call made after
\* any setUserId calls rejects with 'User ID must be set before setting
\* user properties' when the option is absent and otherwise identifies the
\* option's userId.
C38_SetUserIdKeepsOption ==
  [][(hook.kind = "useLoopKit" /\ Len(hookLog') = Len(hookLog) + 1) =>
       LET n == Len(hookLog')
           e == hookLog'[n]
       IN /\ e.by = "setUserId" => hook' = hook
          /\ e.by = "setUserProperties" =>
               IF Truthy(hook.deps[2])
               THEN /\ e.calls = <<[fn |-> "identify",
                                    args |-> <<hook.deps[2], e.input[2]>>]>>
                    /\ ops'[Len(ops')].args[1] = hook.deps[2]
                    /\ rendered.isInitialized =>
                         sdkLog'[Len(sdkLog')].args[1] = hook.deps[2]
               ELSE /\ e.calls = <<>>
                    /\ ops' = ops
                    /\ sdkLog' = sdkLog
                    /\ events'[Len(events')] =
                         Result(<<"hook", n>>, UserIdRequired, 0)]_vars

\* setUserId('u2') reached the SDK on an instance whose option is 'u1', and
\* a later setUserProperties identified 'u1'.
C38_Witness ==
  /\ hook.kind = "useLoopKit"
  /\ hook.deps[2] = "u1"
  /\ \E i, j \in 1..Len(hookLog) :
       /\ i < j
       /\ hookLog[i].by = "setUserId"
       /\ hookLog[i].input[1] = "u2"
       /\ hookLog[i].ready
       /\ hookLog[j].by = "setUserProperties"
       /\ hookLog[j].ready
       /\ hookLog[j].calls[1].args[1] = "u1"

\* C39: while a component using usePerformanceTracking stays mounted and
\* the lifecycle stays ready, it emits at most one component_mounted and no
\* component_unmounted: once component_mounted was emitted, a render
\* between two ready commits, also one in which the provider's onError
\* changes, emits neither of the two.
C39_NoRemountWhileReady ==
  [][(/\ hook.kind = "usePerformanceTracking"
      /\ hook.mounted /\ hook'.mounted
      /\ rendered.isInitialized /\ rendered'.isInitialized
      /\ Named(CallsOf(hookLog), "component_mounted") # <<>>) =>
       /\ Named(NewCalls, "component_mounted") = <<>>
       /\ Named(NewCalls, "component_unmounted") = <<>>]_vars

====
